---------------------------- MODULE Spec2Model ----------------------------
(***************************************************************************)
(* A model of libnavajo's request core:                                    *)
(*   - HttpRequest (src/include/libnavajo/HttpRequest.hh): decodParams,    *)
(*     decodCookies, getSession and the session accessors;                 *)
(*   - MPFD::Field (src/unnamed/part_001): the multipart field with its    *)
(*     text / memory / temp-file storage and the global fileCreation_mutex;*)
(*   - the zlib wrappers nvj_gzip, nvj_gunzip, nvj_gzip_websocket_v2,      *)
(*     nvj_gunzip_websocket_v2, nvj_init_stream and nvj_end_stream         *)
(*     (src/unnamed/part_000), with zlib and the allocator as environment. *)
(* Strings are sequences of character codes (0..255); positions in the     *)
(* actions that model std::string code are 0-based, as in the source.      *)
(***************************************************************************)
EXTENDS Integers, Sequences, FiniteSets, TLC

VARIABLES
    \* ---- HttpRequest::decodParams (one run of the function, step by step)
    pRaw,        \* the raw parameter string handed to the constructor
    paramstr,    \* decodParams' working copy
    pPc,         \* "ctor" | "pass1" | "pass2" | "done"
    parameters,  \* HttpRequest::parameters (std::map as a function)
    \* ---- HttpRequest::decodCookies
    cRaw,        \* the raw cookie string
    cookies,     \* HttpRequest::cookies
    cPc,         \* "ctor" | "done"
    \* ---- MPFD::Field objects, the filesystem and the global mutex
    fields,      \* field id -> the Field's members and its position
    fs,          \* existing files: <<dir, n>> -> content, n the N of MPFD_Temp_N
    mutex,       \* fileCreation_mutex: 0 when free, else the Field holding it
    fcall,       \* the last step of a Field call: who, what, result
    \* ---- HttpRequest objects and the HttpSession store
    sessions,    \* the store: live session id -> attributes
    created,     \* every session id the store has ever handed out
    req,         \* request id -> the Request's members
    call,        \* the last Request call that returned: who, what, result
    \* ---- the zlib wrappers, zlib's streams and the allocator
    strm,        \* the z_stream local to the running one-shot or inflate call
    pstream,     \* the connection's persistent deflate z_stream
    heap,        \* malloc'ed blocks: pointer -> state and size
    cx,          \* the wrapper call: arguments, locals, position, outcome
    zcalls       \* the zlib calls the running wrapper call has made, in order

paramVars   == <<pRaw, paramstr, pPc, parameters>>
cookieVars  == <<cRaw, cookies, cPc>>
fieldVars   == <<fields, fs, mutex, fcall>>
sessionVars == <<sessions, created, req, call>>
codecVars   == <<strm, pstream, heap, cx, zcalls>>
vars == <<pRaw, paramstr, pPc, parameters, cRaw, cookies, cPc,
          fields, fs, mutex, fcall, sessions, created, req, call,
          strm, pstream, heap, cx, zcalls>>

\* an action of one part leaves the other parts alone
ParamsFrame  == UNCHANGED <<cookieVars, fieldVars, sessionVars, codecVars>>
CookiesFrame == UNCHANGED <<paramVars, fieldVars, sessionVars, codecVars>>
FieldFrame   == UNCHANGED <<paramVars, cookieVars, sessionVars, codecVars>>
SessionFrame == UNCHANGED <<paramVars, cookieVars, fieldVars, codecVars>>
CodecFrame   == UNCHANGED <<paramVars, cookieVars, fieldVars, sessionVars>>

-----------------------------------------------------------------------------
(* Bounds of the model.                                                    *)

MaxTokens == 5
MaxCookieLen == 5
NumFields == 2
MaxAppends == 2
NumRequests == 1
MaxSessions == 1
MaxChunks == 2
MaxInits == 1

-----------------------------------------------------------------------------
(* Characters the source names, by their codes.                            *)
PERCENT == 37
PLUS == 43
SPACE == 32
AMP == 38
EQ == 61
SEMI == 59
\* std::string::npos, as a position no string has
npos == -1

Byte == 0..255
EmptyStr == << >>
EmptyMap == [k \in {} |-> EmptyStr]

(* std::map::operator[]= : insert or overwrite.                            *)
MapPut(m, k, v) == [x \in (DOMAIN m) \cup {k} |-> IF x = k THEN v ELSE m[x]]

-----------------------------------------------------------------------------
(* std::string primitives, 0-based.                                        *)

\* operator[] : at pos == size() the reference is to a NUL character
At(s, pos) == IF pos < Len(s) THEN s[pos + 1] ELSE 0

\* s[pos] = c
SetAt(s, pos, c) == [s EXCEPT ![pos + 1] = c]

\* substr(pos, n), pos <= size()
Substr(s, pos, n) ==
    LET last == IF pos + n < Len(s) THEN pos + n ELSE Len(s)
    IN  SubSeq(s, pos + 1, last)

\* erase(pos, n), pos <= size()
Erase(s, pos, n) ==
    LET last == IF pos + n < Len(s) THEN pos + n ELSE Len(s)
    IN  SubSeq(s, 1, pos) \o SubSeq(s, last + 1, Len(s))

\* find_first_of(chars, start) and find(c, start)
FindFirstOf(s, chars, start) ==
    LET hits == {i \in start..(Len(s) - 1) : s[i + 1] \in chars}
    IN  IF hits = {} THEN npos
        ELSE CHOOSE i \in hits : \A j \in hits : i <= j

Find(s, c, start) == FindFirstOf(s, {c}, start)

-----------------------------------------------------------------------------
(* `ss << std::hex << hexChar; ss >> specar` : formatted extraction of an  *)
(* unsigned int in base 16 from at most two characters.                    *)

IsSpace(c) == c = SPACE \/ c \in 9..13
IsHexDigit(c) == c \in 48..57 \/ c \in 65..70 \/ c \in 97..102
HexDigitValue(c) ==
    IF c \in 48..57 THEN c - 48
    ELSE IF c \in 65..70 THEN c - 55
    ELSE c - 87

RECURSIVE SkipSpace(_)
SkipSpace(h) ==
    IF Len(h) > 0 /\ IsSpace(h[1]) THEN SkipSpace(Tail(h)) ELSE h

RECURSIVE HexDigits(_, _)
\* the value of the longest prefix of hex digits of h, from accumulator acc
HexDigits(h, acc) ==
    IF Len(h) > 0 /\ IsHexDigit(h[1])
    THEN HexDigits(Tail(h), acc * 16 + HexDigitValue(h[1]))
    ELSE acc

\* The extracted value. When no digit can be read the extraction fails:
\* specar keeps the value `uninit` it had (it was never initialised; a
\* C++11 library stores 0). A '-' negates modulo 2^32; the caller keeps
\* the low byte only, which is all that is computed for it here.
HexExtract(hexChar, uninit) ==
    LET t      == SkipSpace(hexChar)
        signed == Len(t) > 0 /\ t[1] \in {PLUS, 45}
        d      == IF signed THEN Tail(t) ELSE t
    IN  IF Len(d) = 0 \/ ~IsHexDigit(d[1]) THEN uninit
        ELSE IF signed /\ t[1] = 45
             THEN (256 - (HexDigits(d, 0) % 256)) % 256
             ELSE HexDigits(d, 0)

-----------------------------------------------------------------------------
(* decodParams, pass 1: one iteration of the while loop at lines 68-92,    *)
(* for the position `end` that find_first_of returned.                     *)

Pass1NextStartNoAdvance(end) == end

\* line 91: start=end+1
Pass1NextStart(end) == end + 1

\* lines 70-89: the switch on paramstr[end]
Pass1Body(str, end, uninit) ==
    IF At(str, end) = PERCENT
    THEN IF At(str, end + 1) = PERCENT
         THEN Erase(str, end + 1, 1)
         ELSE LET hexChar == Substr(str, end + 1, 2)
                  specar  == HexExtract(hexChar, uninit)
              IN  Erase(SetAt(str, end, specar % 256), end + 1, 2)
    ELSE SetAt(str, end, SPACE)

Pass1FindFromZero(str, start) == FindFirstOf(str, {PERCENT, PLUS}, 0)

\* line 68: paramstr.find_first_of("%+", start)
Pass1Find(str, start) == FindFirstOf(str, {PERCENT, PLUS}, start)

RECURSIVE Pass1Loop(_, _, _)
\* lines 68-92 run to completion
Pass1Loop(str, start, uninit) ==
    LET end == Pass1Find(str, start)
    IN  IF end = npos THEN str
        ELSE Pass1Loop(Pass1Body(str, end, uninit), Pass1NextStart(end), uninit)

\* lines 70-85: the positions of paramstr one iteration uses: paramstr[end]
\* is read, and written in both cases but '%%'; for a '%', paramstr[end+1]
\* is read and end+1 is where substr and erase start
Pass1Touches(str, end) ==
    [reads  |-> IF At(str, end) = PERCENT THEN {end, end + 1} ELSE {end},
     writes |-> IF At(str, end) = PERCENT /\ At(str, end + 1) = PERCENT
                THEN {} ELSE {end},
     ranges |-> IF At(str, end) = PERCENT THEN {end + 1} ELSE {}]

RECURSIVE Pass1Trace(_, _, _)
\* lines 68-92, iteration by iteration: the scan position and the size of
\* paramstr the iteration starts with, the position found, the positions
\* used, and the size and scan position it ends with
Pass1Trace(str, start, uninit) ==
    LET end == Pass1Find(str, start)
    IN  IF end = npos THEN << >>
        ELSE LET after == Pass1Body(str, end, uninit)
             IN  << [start |-> start, size |-> Len(str), end |-> end,
                     touches |-> Pass1Touches(str, end),
                     sizeAfter |-> Len(after),
                     startAfter |-> Pass1NextStart(end)] >>
                 \o Pass1Trace(after, Pass1NextStart(end), uninit)

(* decodParams, pass 2: one iteration of the while loop at lines 96-110.   *)
(* The result is the new map, the new `start` and islastParam.             *)

Pass2StoreFirstWins(params, theParam) ==
    LET posEq == Find(theParam, EQ, 0)
        key   == IF posEq = npos THEN theParam ELSE Substr(theParam, 0, posEq)
        val   == IF posEq = npos THEN EmptyStr
                 ELSE Substr(theParam, posEq + 1, Len(theParam))
    IN  IF key \in DOMAIN params THEN params ELSE MapPut(params, key, val)

\* lines 103-107: split theParam at its first '=' and store it
Pass2Store(params, theParam) ==
    LET posEq == Find(theParam, EQ, 0)
    IN  IF posEq = npos
        THEN MapPut(params, theParam, EmptyStr)
        ELSE MapPut(params, Substr(theParam, 0, posEq),
                    Substr(theParam, posEq + 1, Len(theParam)))

Pass2Body(str, start, params) ==
    LET found       == Find(str, AMP, start)
        islastParam == found = npos
        end         == IF islastParam THEN Len(str) ELSE found
        theParam    == Substr(str, start, end - start)
    IN  [params |-> Pass2Store(params, theParam),
         start  |-> end + 1,
         last   |-> islastParam]

RECURSIVE Pass2Loop(_, _, _)
Pass2Loop(str, start, params) ==
    LET r == Pass2Body(str, start, params)
    IN  IF r.last THEN r.params ELSE Pass2Loop(str, r.start, r.params)

\* decodParams as one function: the map it leaves in `parameters`
decodParams(p, params, uninit) == Pass2Loop(Pass1Loop(p, 0, uninit), 0, params)

-----------------------------------------------------------------------------
(* decodCookies, lines 118-132.                                            *)

\* iswgraph in the "C" locale: the printable characters but the space
IsGraph(c) == c \in 33..126

RECURSIVE SkipNonGraph(_, _, _)
\* line 127: while (!iswgraph(theCookie[firstC]) && firstC < posEq) firstC++
SkipNonGraph(theCookie, firstC, posEq) ==
    IF ~IsGraph(At(theCookie, firstC)) /\ firstC < posEq
    THEN SkipNonGraph(theCookie, firstC + 1, posEq)
    ELSE firstC

\* line 129, second condition: theCookie.length()-posEq > 0
CookieValueGuard(theCookie, posEq) == Len(theCookie) - posEq > 0

CookieFragment(cks, theCookie) ==
    LET posEq == Find(theCookie, EQ, 0)
    IN  IF posEq = npos THEN cks
        ELSE LET firstC == SkipNonGraph(theCookie, 0, posEq)
             IN  IF posEq - firstC > 0 /\ CookieValueGuard(theCookie, posEq)
                 THEN MapPut(cks, Substr(theCookie, firstC, posEq - firstC),
                             Substr(theCookie, posEq + 1, Len(theCookie) - posEq))
                 ELSE cks

RECURSIVE CookieLoop(_, _, _)
\* lines 120-131: std::getline(ss, theCookie, ';') from stream position pos
\* until it extracts nothing at the end of the stream
CookieLoop(c, pos, cks) ==
    IF pos >= Len(c) THEN cks
    ELSE LET found == Find(c, SEMI, pos)
             end   == IF found = npos THEN Len(c) ELSE found
         IN  CookieLoop(c, end + 1, CookieFragment(cks, Substr(c, pos, end - pos)))

decodCookies(c, cks) == CookieLoop(c, 0, cks)

\* getCookie(name, value), lines 172-184, and getCookie(name), lines 158-163
getCookie(cks, name) == IF name \in DOMAIN cks THEN cks[name] ELSE EmptyStr

-----------------------------------------------------------------------------
(* MPFD::Field (src/unnamed/part_001).                                     *)

\* Field::TextType, Field::FileType and the Parser's storage modes, as the
\* headers of the library number them
TextType == 1
FileType == 2
StoreUploadedFilesInFilesystem == 1
StoreUploadedFilesInMemory == 2

NoFile == [open |-> FALSE, path |-> << >>]
NoCall == [f |-> 0, op |-> "none", threw |-> FALSE, ret |-> 0]

\* A Field that does not exist (yet, or any more)
NoField(life) ==
    [life |-> life, type |-> 0, where |-> 0, TempDir |-> "", TempFile |-> 0,
     file |-> NoFile, FieldContent |-> << >>, FileName |-> "",
     FileContentType |-> "", pc |-> "idle", i |-> 0, tempfile |-> << >>,
     data |-> << >>, accBytes |-> << >>, accModes |-> {}, nAcc |-> 0]

\* TempDir + "/" + TempFile
TempPath(fld) == <<fld.TempDir, fld.TempFile>>

Returned(f, op, ret) == [f |-> f, op |-> op, threw |-> FALSE, ret |-> ret]
Threw(f, op)         == [f |-> f, op |-> op, threw |-> TRUE, ret |-> 0]

Idle(f) == fields[f].life = "alive" /\ fields[f].pc = "idle"

\* Field::Field(), lines 11-14: only `type` is initialised; the storage mode
\* holds whatever value `where0` the memory had
Construct(f, where0) ==
    /\ fields[f].life = "unborn"
    /\ fields' = [fields EXCEPT ![f] =
                    [NoField("alive") EXCEPT !.where = where0]]
    /\ fcall' = Returned(f, "Field", 0)
    /\ UNCHANGED <<fs, mutex>>
    /\ FieldFrame

\* remove(path): unlink the file if it exists
RemoveFile(files, path) == [q \in (DOMAIN files) \ {path} |-> files[q]]

\* Field::~Field(), lines 16-26: the files left once the Field is gone
DestroyFiles(fld, files) ==
    IF fld.type = FileType /\ fld.file.open
    THEN RemoveFile(files, TempPath(fld))
    ELSE files

Destroy(f) ==
    /\ Idle(f)
    /\ fs' = DestroyFiles(fields[f], fs)
    /\ fields' = [fields EXCEPT ![f] = NoField("dead")]
    /\ fcall' = Returned(f, "~Field", 0)
    /\ UNCHANGED mutex
    /\ FieldFrame

SetTypeUnchecked(old, type) == type

SetTypeResult(old, type) ==
    IF (type = TextType) \/ (type = FileType) THEN type ELSE old

SetType(f, type) ==
    /\ Idle(f)
    /\ fields' = [fields EXCEPT ![f].type = SetTypeResult(@, type)]
    /\ fcall' = IF (type = TextType) \/ (type = FileType)
                THEN Returned(f, "SetType", type)
                ELSE Threw(f, "SetType")
    /\ UNCHANGED <<fs, mutex>>
    /\ FieldFrame

\* Field::GetType, lines 37-43
GetType(f) ==
    /\ Idle(f)
    /\ fcall' = IF fields[f].type > 0
                THEN Returned(f, "GetType", fields[f].type)
                ELSE Threw(f, "GetType")
    /\ UNCHANGED <<fields, fs, mutex>>
    /\ FieldFrame

\* lines 102-104, 182-193: the plain setters
SetTempDir(f, dir) ==
    /\ Idle(f)
    /\ fields' = [fields EXCEPT ![f].TempDir = dir]
    /\ fcall' = Returned(f, "SetTempDir", dir)
    /\ UNCHANGED <<fs, mutex>>
    /\ FieldFrame

SetUploadedFilesStorage(f, where) ==
    /\ Idle(f)
    /\ fields' = [fields EXCEPT ![f].where = where]
    /\ fcall' = Returned(f, "SetUploadedFilesStorage", where)
    /\ UNCHANGED <<fs, mutex>>
    /\ FieldFrame

SetFileName(f, name) ==
    /\ Idle(f)
    /\ fields' = [fields EXCEPT ![f].FileName = name]
    /\ fcall' = Returned(f, "SetFileName", name)
    /\ UNCHANGED <<fs, mutex>>
    /\ FieldFrame

SetFileContentType(f, type) ==
    /\ Idle(f)
    /\ fields' = [fields EXCEPT ![f].FileContentType = type]
    /\ fcall' = Returned(f, "SetFileContentType", type)
    /\ UNCHANGED <<fs, mutex>>
    /\ FieldFrame

-----------------------------------------------------------------------------
(* Field::AcceptSomeData, lines 45-100.                                    *)

\* lines 47-53: resize to size + length + 1, copy the data in at the old
\* size, write the terminator into the last cell
AcceptText(FieldContent, data) ==
    LET FieldContentLength    == Len(FieldContent)
        newFieldContentLength == FieldContentLength + Len(data) + 1
    IN  [k \in 1..newFieldContentLength |->
            IF k <= FieldContentLength THEN FieldContent[k]
            ELSE IF k < newFieldContentLength THEN data[k - FieldContentLength]
            ELSE 0]

\* lines 92-95: resize to size + length, copy the data in at the old size
AcceptMemory(FieldContent, data) ==
    LET FieldContentLength    == Len(FieldContent)
        newFieldContentLength == FieldContentLength + Len(data)
    IN  [k \in 1..newFieldContentLength |->
            IF k <= FieldContentLength THEN FieldContent[k]
            ELSE data[k - FieldContentLength]]

\* lines 83-84: file.write(data, length); file.flush() through the open
\* handle; a file unlinked meanwhile is no longer in the directory
WriteFile(files, path, data) ==
    IF path \in DOMAIN files
    THEN [files EXCEPT ![path] = @ \o data]
    ELSE files

\* what the Field has accepted so far (history, for the statements below)
Accepted(fld, mode, data) ==
    [fld EXCEPT !.accBytes = @ \o data,
                !.accModes = @ \cup {mode},
                !.nAcc = @ + 1]

MutexIgnored(m) == TRUE

\* line 59: pthread_mutex_lock returns only when the mutex is free
MutexAvailable(m) == m = 0

\* The call up to its first blocking point. A filesystem Field whose file is
\* not open goes on to take the mutex; every other case ends here.
AcceptSomeData(f, data) ==
    /\ Idle(f)
    /\ fields[f].nAcc < MaxAppends
    /\ LET fld == fields[f] IN
       IF fld.type = TextType THEN
            /\ fields' = [fields EXCEPT ![f] =
                 Accepted([fld EXCEPT !.FieldContent = AcceptText(@, data)],
                          "text", data)]
            /\ fcall' = Returned(f, "AcceptSomeData", 0)
            /\ UNCHANGED <<fs, mutex>>
       ELSE IF fld.type = FileType THEN
            IF fld.where = StoreUploadedFilesInFilesystem THEN
                IF fld.TempDir # "" THEN
                    IF ~fld.file.open THEN
                        /\ fields' = [fields EXCEPT ![f].pc = "lock",
                                                    ![f].data = data]
                        /\ fcall' = Returned(f, "enter", 0)
                        /\ UNCHANGED <<fs, mutex>>
                    ELSE
                        /\ fs' = WriteFile(fs, fld.file.path, data)
                        /\ fields' = [fields EXCEPT ![f] =
                                        Accepted(fld, "disk", data)]
                        /\ fcall' = Returned(f, "AcceptSomeData", 0)
                        /\ UNCHANGED mutex
                ELSE
                    /\ fcall' = Threw(f, "AcceptSomeData")
                    /\ UNCHANGED <<fields, fs, mutex>>
            ELSE
                /\ fields' = [fields EXCEPT ![f] =
                     Accepted([fld EXCEPT !.FieldContent = AcceptMemory(@, data)],
                              "memory", data)]
                /\ fcall' = Returned(f, "AcceptSomeData", 0)
                /\ UNCHANGED <<fs, mutex>>
       ELSE
            /\ fcall' = Threw(f, "AcceptSomeData")
            /\ UNCHANGED <<fields, fs, mutex>>
    /\ FieldFrame

\* lines 59-60: take fileCreation_mutex, i = 1
AcquireLock(f) ==
    /\ fields[f].pc = "lock"
    /\ MutexAvailable(mutex)
    /\ mutex' = f
    /\ fields' = [fields EXCEPT ![f].pc = "probe", ![f].i = 1]
    /\ fcall' = Returned(f, "lock", 0)
    /\ UNCHANGED fs
    /\ FieldFrame

\* lines 63-76: one turn of the do-while: name candidate i, try to open it
\* for reading, i++, go round again if that file exists
Probe(f) ==
    /\ fields[f].pc = "probe"
    /\ LET fld      == fields[f]
           tempfile == <<fld.TempDir, fld.i>>
       IN  fields' = [fields EXCEPT
                        ![f].TempFile = fld.i,
                        ![f].tempfile = tempfile,
                        ![f].i = fld.i + 1,
                        ![f].pc = IF tempfile \in DOMAIN fs
                                  THEN "probe" ELSE "create"]
    /\ fcall' = Returned(f, "probe", 0)
    /\ UNCHANGED <<fs, mutex>>
    /\ FieldFrame

\* as CreateFile, with the unlock inside the branch taken when the file is
\* open
CreateFileUnlocksIfOpen(f, granted) ==
    /\ fields[f].pc = "create"
    /\ LET fld == fields[f] IN
       /\ fs' = IF granted
                THEN [q \in (DOMAIN fs) \cup {fld.tempfile} |->
                        IF q = fld.tempfile THEN << >> ELSE fs[q]]
                ELSE fs
       /\ fields' = [fields EXCEPT
                        ![f].file = IF granted
                                    THEN [open |-> TRUE, path |-> fld.tempfile]
                                    ELSE NoFile,
                        ![f].pc = "write"]
    /\ mutex' = IF granted THEN 0 ELSE mutex
    /\ fcall' = Returned(f, "create", 0)
    /\ FieldFrame

\* lines 78-79: file.open(tempfile, out | binary | trunc), which the
\* filesystem grants (`granted`) or refuses, then pthread_mutex_unlock
CreateFile(f, granted) ==
    /\ fields[f].pc = "create"
    /\ LET fld == fields[f] IN
       /\ fs' = IF granted
                THEN [q \in (DOMAIN fs) \cup {fld.tempfile} |->
                        IF q = fld.tempfile THEN << >> ELSE fs[q]]
                ELSE fs
       /\ fields' = [fields EXCEPT
                        ![f].file = IF granted
                                    THEN [open |-> TRUE, path |-> fld.tempfile]
                                    ELSE NoFile,
                        ![f].pc = "write"]
    /\ mutex' = 0
    /\ fcall' = Returned(f, "create", 0)
    /\ FieldFrame

\* lines 82-87: write and flush, or throw when the file is not open
WriteData(f) ==
    /\ fields[f].pc = "write"
    /\ LET fld == fields[f] IN
       IF fld.file.open THEN
            /\ fs' = WriteFile(fs, fld.file.path, fld.data)
            /\ fields' = [fields EXCEPT ![f] =
                 Accepted([fld EXCEPT !.pc = "idle", !.data = << >>,
                                      !.i = 0, !.tempfile = << >>],
                          "disk", fld.data)]
            /\ fcall' = Returned(f, "AcceptSomeData", 0)
       ELSE
            /\ fields' = [fields EXCEPT ![f].pc = "idle", ![f].data = << >>,
                                        ![f].i = 0, ![f].tempfile = << >>]
            /\ fcall' = Threw(f, "AcceptSomeData")
            /\ UNCHANGED fs
    /\ UNCHANGED mutex
    /\ FieldFrame

-----------------------------------------------------------------------------
(* The read accessors, lines 106-205.                                      *)

\* std::string(&FieldContent[0]): the characters before the first NUL; with
\* no NUL in the buffer the read runs past it into `beyond`
CString(FieldContent, beyond) ==
    LET nuls == {k \in 1..Len(FieldContent) : FieldContent[k] = 0}
    IN  IF nuls = {} THEN FieldContent \o beyond
        ELSE SubSeq(FieldContent, 1, (CHOOSE k \in nuls : \A j \in nuls : k <= j) - 1)

\* lines 138-152
TextTypeContent(fld, beyond) ==
    IF fld.FieldContent = << >> THEN << >>
    ELSE CString(fld.FieldContent, beyond)

GetTextTypeContent(f, beyond) ==
    /\ Idle(f)
    /\ fcall' = IF fields[f].type = TextType
                THEN Returned(f, "GetTextTypeContent",
                              TextTypeContent(fields[f], beyond))
                ELSE Threw(f, "GetTextTypeContent")
    /\ UNCHANGED <<fields, fs, mutex>>
    /\ FieldFrame

\* lines 106-120
GetFileContentSize(f) ==
    /\ Idle(f)
    /\ fcall' = IF fields[f].type = FileType
                   /\ fields[f].where = StoreUploadedFilesInMemory
                THEN Returned(f, "GetFileContentSize", Len(fields[f].FieldContent))
                ELSE Threw(f, "GetFileContentSize")
    /\ UNCHANGED <<fields, fs, mutex>>
    /\ FieldFrame

\* lines 122-136
GetFileContent(f) ==
    /\ Idle(f)
    /\ fcall' = IF fields[f].type = FileType
                   /\ fields[f].where = StoreUploadedFilesInMemory
                THEN Returned(f, "GetFileContent", fields[f].FieldContent)
                ELSE Threw(f, "GetFileContent")
    /\ UNCHANGED <<fields, fs, mutex>>
    /\ FieldFrame

GetTempFileNameAnyStorage(f) ==
    /\ Idle(f)
    /\ fcall' = IF fields[f].type = FileType
                THEN Returned(f, "GetTempFileName", TempPath(fields[f]))
                ELSE Threw(f, "GetTempFileName")
    /\ UNCHANGED <<fields, fs, mutex>>
    /\ FieldFrame

\* lines 154-168
GetTempFileName(f) ==
    /\ Idle(f)
    /\ fcall' = IF fields[f].type = FileType
                   /\ fields[f].where = StoreUploadedFilesInFilesystem
                THEN Returned(f, "GetTempFileName", TempPath(fields[f]))
                ELSE Threw(f, "GetTempFileName")
    /\ UNCHANGED <<fields, fs, mutex>>
    /\ FieldFrame

\* lines 170-180
GetFileName(f) ==
    /\ Idle(f)
    /\ fcall' = IF fields[f].type = FileType
                THEN Returned(f, "GetFileName", fields[f].FileName)
                ELSE Threw(f, "GetFileName")
    /\ UNCHANGED <<fields, fs, mutex>>
    /\ FieldFrame

\* lines 195-205
GetFileMimeType(f) ==
    /\ Idle(f)
    /\ fcall' = IF fields[f].type = FileType
                THEN Returned(f, "GetFileMimeType", fields[f].FileContentType)
                ELSE Threw(f, "GetFileMimeType")
    /\ UNCHANGED <<fields, fs, mutex>>
    /\ FieldFrame

-----------------------------------------------------------------------------
(* The HttpSession store. Its code is not part of these sources: the       *)
(* operations are the ones the specification lists for the Session Store   *)
(* (create() -> id, find(id), get/set/remove attribute(id, name),          *)
(* list attribute names(id), remove(id)), each atomic, each reporting      *)
(* not-found for an id that is not live.                                   *)

NULL == "NULL"
NoAttrs == [n \in {} |-> NULL]
NewSession == [attrs |-> NoAttrs, objs |-> NoAttrs]

HttpSession_find(store, id) == id \in DOMAIN store

HttpSession_create(store, id) ==
    [x \in (DOMAIN store) \cup {id} |-> IF x = id THEN NewSession ELSE store[x]]

HttpSession_remove(store, id) == [x \in (DOMAIN store) \ {id} |-> store[x]]

HttpSession_setAttribute(store, id, name, value) ==
    IF id \in DOMAIN store
    THEN [store EXCEPT ![id].attrs = MapPut(@, name, value)]
    ELSE store

HttpSession_setObjectAttribute(store, id, name, value) ==
    IF id \in DOMAIN store
    THEN [store EXCEPT ![id].objs = MapPut(@, name, value)]
    ELSE store

HttpSession_getAttribute(store, id, name) ==
    IF id \in DOMAIN store /\ name \in DOMAIN store[id].attrs
    THEN store[id].attrs[name] ELSE NULL

HttpSession_getObjectAttribute(store, id, name) ==
    IF id \in DOMAIN store /\ name \in DOMAIN store[id].objs
    THEN store[id].objs[name] ELSE NULL

HttpSession_getAttributeNames(store, id) ==
    IF id \in DOMAIN store
    THEN (DOMAIN store[id].attrs) \cup (DOMAIN store[id].objs) ELSE {}

HttpSession_removeAttribute(store, id, name) ==
    IF id \in DOMAIN store
    THEN [store EXCEPT
            ![id].attrs = [n \in (DOMAIN @) \ {name} |-> @[n]],
            ![id].objs  = [n \in (DOMAIN @) \ {name} |-> @[n]]]
    ELSE store

-----------------------------------------------------------------------------
(* HttpRequest: construction and the session accessors.                    *)

\* the cookie name "SID", line 141
SID == <<83, 73, 68>>

\* a `const char *` argument: NULL, or a string
NullPtr == [null |-> TRUE, str |-> EmptyStr]
CStr(s) == [null |-> FALSE, str |-> s]

NoRequest ==
    [life |-> "none", sessionId |-> EmptyStr, cookies |-> EmptyMap,
     parameters |-> EmptyMap, removed |-> FALSE]

Live(r) == req[r].life = "live"

\* what a call reports: who called what with which arguments, and the
\* result (for a call that returns nothing: the session id it created, if any)
Called(r, op, name, value, ret) ==
    [r |-> r, op |-> op, name |-> name, value |-> value, ret |-> ret]

\* isSessionValid, lines 262-265
isSessionValid(rq) == rq.sessionId # EmptyStr

\* initSessionId, line 352
initSessionId(r) ==
    /\ Live(r)
    /\ req' = [req EXCEPT ![r].sessionId = EmptyStr]
    /\ call' = Called(r, "initSessionId", EmptyStr, 0, 0)
    /\ UNCHANGED <<sessions, created>>
    /\ SessionFrame

IsSessionValidCall(r) ==
    /\ Live(r)
    /\ call' = Called(r, "isSessionValid", EmptyStr, 0, isSessionValid(req[r]))
    /\ UNCHANGED <<sessions, created, req>>
    /\ SessionFrame

getSessionTrusting(cks, store) == getCookie(cks, SID)

\* getSession, lines 139-147: the session id the constructor ends with
getSession(cks, store) ==
    LET sessionId == getCookie(cks, SID)
    IN  IF Len(sessionId) > 0 /\ HttpSession_find(store, sessionId)
        THEN sessionId
        ELSE EmptyStr

\* HttpRequest::HttpRequest, lines 368-384
HttpRequest(r, params, cookiesArg, uninit) ==
    /\ req[r].life = "none"
    /\ LET prm == IF ~params.null /\ Len(params.str) > 0
                  THEN decodParams(params.str, EmptyMap, uninit)
                  ELSE EmptyMap
           cks == IF ~cookiesArg.null /\ Len(cookiesArg.str) > 0
                  THEN decodCookies(cookiesArg.str, EmptyMap)
                  ELSE EmptyMap
       IN  /\ req' = [req EXCEPT ![r] =
                        [life |-> "live", sessionId |-> getSession(cks, sessions),
                         cookies |-> cks, parameters |-> prm, removed |-> FALSE]]
           /\ call' = Called(r, "HttpRequest", cookiesArg.str, cookiesArg.null, 0)
    /\ UNCHANGED <<sessions, created>>
    /\ SessionFrame

\* the Request is destroyed once its response is sent; its session stays
DestroyRequest(r) ==
    /\ Live(r)
    /\ req' = [req EXCEPT ![r] = NoRequest]
    /\ call' = Called(r, "~HttpRequest", EmptyStr, 0, 0)
    /\ UNCHANGED <<sessions, created>>
    /\ SessionFrame

\* createSession, lines 271-274: HttpSession::create(sessionId) makes a
\* session under the fresh id the store generates and writes the id into
\* sessionId
createSession(r, fresh) ==
    /\ Live(r)
    /\ fresh \notin created
    /\ sessions' = HttpSession_create(sessions, fresh)
    /\ created' = created \cup {fresh}
    /\ req' = [req EXCEPT ![r].sessionId = fresh, ![r].removed = FALSE]
    /\ call' = Called(r, "createSession", EmptyStr, 0, fresh)
    /\ SessionFrame

\* removeSession, lines 279-283
removeSession(r) ==
    /\ Live(r)
    /\ sessions' = IF req[r].sessionId = EmptyStr THEN sessions
                   ELSE HttpSession_remove(sessions, req[r].sessionId)
    /\ req' = [req EXCEPT ![r].removed = @ \/ isSessionValid(req[r])]
    /\ call' = Called(r, "removeSession", EmptyStr, 0, 0)
    /\ UNCHANGED created
    /\ SessionFrame

setSessionAttributeNoCreate(r, name, value, fresh) ==
    /\ Live(r)
    /\ sessions' = HttpSession_setAttribute(sessions, req[r].sessionId, name, value)
    /\ req' = [req EXCEPT ![r].removed = FALSE]
    /\ call' = Called(r, "setSessionAttribute", name, value, EmptyStr)
    /\ UNCHANGED created
    /\ SessionFrame

\* setSessionAttribute, lines 290-294; `fresh` is the id the store
\* generates if the call creates a session
setSessionAttribute(r, name, value, fresh) ==
    /\ Live(r)
    /\ IF req[r].sessionId = EmptyStr THEN fresh \notin created
                                      ELSE fresh = req[r].sessionId
    /\ LET creates == req[r].sessionId = EmptyStr
           sid     == IF creates THEN fresh ELSE req[r].sessionId
           store   == IF creates THEN HttpSession_create(sessions, fresh)
                      ELSE sessions
       IN  /\ sessions' = HttpSession_setAttribute(store, sid, name, value)
           /\ created' = IF creates THEN created \cup {fresh} ELSE created
           /\ req' = [req EXCEPT ![r].sessionId = sid, ![r].removed = FALSE]
           /\ call' = Called(r, "setSessionAttribute", name, value,
                             IF creates THEN fresh ELSE EmptyStr)
    /\ SessionFrame

\* setSessionObjectAttribute, lines 301-305
setSessionObjectAttribute(r, name, value, fresh) ==
    /\ Live(r)
    /\ IF req[r].sessionId = EmptyStr THEN fresh \notin created
                                      ELSE fresh = req[r].sessionId
    /\ LET creates == req[r].sessionId = EmptyStr
           sid     == IF creates THEN fresh ELSE req[r].sessionId
           store   == IF creates THEN HttpSession_create(sessions, fresh)
                      ELSE sessions
       IN  /\ sessions' = HttpSession_setObjectAttribute(store, sid, name, value)
           /\ created' = IF creates THEN created \cup {fresh} ELSE created
           /\ req' = [req EXCEPT ![r].sessionId = sid, ![r].removed = FALSE]
           /\ call' = Called(r, "setSessionObjectAttribute", name, value,
                             IF creates THEN fresh ELSE EmptyStr)
    /\ SessionFrame

getSessionAttributeOfObjects(r, name) ==
    /\ Live(r)
    /\ call' = Called(r, "getSessionAttribute", name, 0,
                      IF req[r].sessionId = EmptyStr THEN NULL
                      ELSE HttpSession_getObjectAttribute(sessions, req[r].sessionId, name))
    /\ UNCHANGED <<sessions, created, req>>
    /\ SessionFrame

\* getSessionAttribute, lines 312-316
getSessionAttribute(r, name) ==
    /\ Live(r)
    /\ call' = Called(r, "getSessionAttribute", name, 0,
                      IF req[r].sessionId = EmptyStr THEN NULL
                      ELSE HttpSession_getAttribute(sessions, req[r].sessionId, name))
    /\ UNCHANGED <<sessions, created, req>>
    /\ SessionFrame

\* getSessionObjectAttribute, lines 323-327
getSessionObjectAttribute(r, name) ==
    /\ Live(r)
    /\ call' = Called(r, "getSessionObjectAttribute", name, 0,
                      IF req[r].sessionId = EmptyStr THEN NULL
                      ELSE HttpSession_getObjectAttribute(sessions, req[r].sessionId, name))
    /\ UNCHANGED <<sessions, created, req>>
    /\ SessionFrame

\* getSessionAttributeNames, lines 333-337
getSessionAttributeNames(r) ==
    /\ Live(r)
    /\ call' = Called(r, "getSessionAttributeNames", EmptyStr, 0,
                      IF req[r].sessionId = EmptyStr THEN {}
                      ELSE HttpSession_getAttributeNames(sessions, req[r].sessionId))
    /\ UNCHANGED <<sessions, created, req>>
    /\ SessionFrame

\* getSessionRemoveAttribute, lines 343-347
getSessionRemoveAttribute(r, name) ==
    /\ Live(r)
    /\ sessions' = IF req[r].sessionId # EmptyStr
                   THEN HttpSession_removeAttribute(sessions, req[r].sessionId, name)
                   ELSE sessions
    /\ call' = Called(r, "getSessionRemoveAttribute", name, 0, 0)
    /\ UNCHANGED <<created, req>>
    /\ SessionFrame

\* the store's own expiry policy drops a live session at any time
StoreExpire(id) ==
    /\ id \in DOMAIN sessions
    /\ sessions' = HttpSession_remove(sessions, id)
    /\ call' = Called(0, "expire", id, 0, 0)
    /\ UNCHANGED <<created, req>>
    /\ SessionFrame

-----------------------------------------------------------------------------
(* The inputs drawn within the bounds.                                     *)

\* values an uninitialised `unsigned int specar` may hold
UninitValues == {0, 65}

RECURSIVE Flatten(_)
Flatten(ss) == IF Len(ss) = 0 THEN << >> ELSE Head(ss) \o Flatten(Tail(ss))

\* raw parameter strings: up to MaxTokens of these pieces, in any order:
\* % + & = a and the escapes %26 %25 %2B
Tokens ==
    { <<PERCENT>>, <<PLUS>>, <<AMP>>, <<EQ>>, <<97>>,
      <<PERCENT, 50, 54>>, <<PERCENT, 50, 53>>, <<PERCENT, 50, 66>> }

\* pRaw is one of them
RawInput(raw) ==
    \E n \in 0..MaxTokens : \E ts \in [1..n -> Tokens] : raw = Flatten(ts)

\* raw cookie strings: every string of up to MaxCookieLen of  ; = space S a
CookieChars == {SEMI, EQ, SPACE, 83, 97}
CookieInputs == UNION { [1..n -> CookieChars] : n \in 0..MaxCookieLen }

\* data chunks: the empty one, "a" and "bc"
Chunks == {<< >>, <<97>>, <<98, 99>>}

Fields == 1..NumFields
TypeValues == {0, TextType, FileType, 3}
WhereValues == {StoreUploadedFilesInFilesystem, StoreUploadedFilesInMemory}
\* values the never-initialised WhereToStoreUploadedFiles may start with
UninitWhere == {0, StoreUploadedFilesInFilesystem, StoreUploadedFilesInMemory}
TempDirs == {"", "tmp"}
FileNames == {"a.txt"}
MimeTypes == {"text/plain"}
\* what lies behind a buffer that std::string(const char*) overruns
Beyond == {<< >>, <<120>>}

Requests == 1..NumRequests
SessionIds == { <<48 + k>> : k \in 1..MaxSessions }
AttrNames == {"n"}
AttrValues == {"v", "w"}
\* the objects stored with setSessionObjectAttribute
ObjectValues == {"o"}
\* cookie headers a client may send: none, an empty one, a cookie that is
\* not SID, an empty SID, and SID set to each id the store can hand out
CookieHeaders ==
    {NullPtr, CStr(EmptyStr), CStr(<<97, EQ, 49>>), CStr(SID \o <<EQ>>)}
    \cup { CStr(SID \o <<EQ>> \o id) : id \in SessionIds }
\* the parameter string every Request of SpecSession is built from: "a=%26"
ParamHeaders == {CStr(<<97, EQ, PERCENT, 50, 54>>)}

-----------------------------------------------------------------------------
(* The zlib wrappers of src/unnamed/part_000.                              *)
(*                                                                         *)
(* zlib and the allocator are the environment: deflate, inflate, malloc,   *)
(* realloc and free are modelled by their documented contracts, with every *)
(* outcome the contract allows chosen nondeterministically.  A buffer's    *)
(* content is not kept byte by byte: each write of k bytes is recorded as  *)
(* a segment [off, from, len], "len bytes of the codec's output stream     *)
(* starting at stream position from were written at buffer offset off".    *)
(*                                                                         *)
(* size_t is 64 bits wide and TLC's integers are 32: a size_t value is     *)
(* written as the integer of least magnitude congruent to it modulo 2^64,  *)
(* so that -4 stands for 2^64 - 4.  Sums and differences of such numbers   *)
(* are exact modulo 2^64 as long as their magnitudes stay small, which     *)
(* they do here.                                                           *)

\* line 23: #define CHUNK 16384
CHUNK == 16384
\* the null pointer; a pointer to a block is the block's index in heap
Z_NULL == 0
\* the size of the empty stored block's tail 00 00 FF FF a sync flush ends with
SyncMarker == 4

Min(a, b) == IF a < b THEN a ELSE b

\* a size_t that has wrapped below zero: a number of 2^63 bytes or more
Wrapped(n) == n < 0

\* ---- the allocator
Block(n) == [st |-> "live", size |-> n]

\* malloc(n): a fresh block, or NULL; the outcomes as <<heap, pointer>>
malloc(h, n) ==
    IF Wrapped(n) THEN {<<h, Z_NULL>>}
    ELSE {<<h, Z_NULL>>, <<Append(h, Block(n)), Len(h) + 1>>}

\* free(p): no operation on NULL; freeing a block twice is recorded
free(h, p) ==
    IF p = Z_NULL THEN h
    ELSE [h EXCEPT ![p].st = IF @ = "live" THEN "freed" ELSE "double"]

\* realloc(p, n): NULL with the block untouched, or the block released and
\* a fresh one of the new size returned (a block resized in place is not told
\* apart from one that moved: the wrappers only ever use the pointer realloc
\* returns); realloc(p, 0) is implementation-defined: the block may be
\* released or kept, and the result may be NULL or a fresh block of no size
realloc(h, p, n) ==
    IF p = Z_NULL THEN malloc(h, n)
    ELSE IF n = 0
    THEN {<<free(h, p), Z_NULL>>, <<h, Z_NULL>>,
          <<Append(free(h, p), Block(0)), Len(h) + 1>>}
    ELSE IF Wrapped(n) THEN {<<h, Z_NULL>>}
    ELSE {<<h, Z_NULL>>, <<Append(free(h, p), Block(n)), Len(h) + 1>>}

DoubleFreed(h) == \E b \in DOMAIN h : h[b].st = "double"
LiveBlocks(h) == {b \in DOMAIN h : h[b].st = "live"}
Capacity(h, p) == IF p \in DOMAIN h /\ h[p].st = "live" THEN h[p].size ELSE 0

\* ---- the inputs
\* the lengths of the plain inputs: around every multiple of CHUNK
PlainLens == UNION {{k * CHUNK, k * CHUNK + 1} : k \in 0..MaxChunks}
\* the lengths a complete compressed stream may have
CompLens == {2} \cup UNION {{k * CHUNK, k * CHUNK + 1} : k \in 1..MaxChunks}
\* what one deflate call may make ready without a flush, and with a sync flush
NoFlushOut == {0, 1, CHUNK}
SyncOut == {SyncMarker + 1, CHUNK, CHUNK + SyncMarker}

\* a source buffer: null or not, its length, and what it holds: a caller's
\* plain bytes, or a compressed stream of `plain` bytes made in mode `raw`
NoSrc == [null |-> TRUE, len |-> 0, plain |-> 0, raw |-> FALSE,
          valid |-> FALSE, of |-> "none"]
PlainSrc(null, n) == [NoSrc EXCEPT !.null = null, !.len = n, !.plain = n,
                                   !.of = "caller"]
StreamSrc(n, l, raw) == [null |-> FALSE, len |-> l, plain |-> n, raw |-> raw,
                         valid |-> TRUE, of |-> "caller"]
CorruptSrc(l) == [NoSrc EXCEPT !.null = FALSE, !.len = l, !.of = "caller"]
NullSrc == [NoSrc EXCEPT !.of = "caller"]

CompressInputs == {PlainSrc(FALSE, n) : n \in PlainLens}
                    \cup {PlainSrc(TRUE, n) : n \in {0, 1}}
DecodeInputs == {NullSrc, CorruptSrc(0), CorruptSrc(1), CorruptSrc(CHUNK + 1)}
                  \cup {StreamSrc(n, l, raw) :
                          n \in PlainLens, l \in CompLens, raw \in BOOLEAN}

\* the dictionary lengths a caller passes to nvj_gunzip_websocket_v2
DictLengths == {0, 1}

\* ---- zlib's streams
NoStream == [live |-> FALSE, kind |-> "none", raw |-> FALSE,
             inits |-> 0, ends |-> 0,
             avail_in |-> 0, next_in |-> 0, avail_out |-> 0, next_out |-> 0,
             pend |-> 0, fin |-> FALSE, dict |-> 0]

\* deflateInit2 / inflateInit2: Z_OK and a fresh state, or an error and none
deflateInit2(s, raw, ok) ==
    IF ok THEN [NoStream EXCEPT !.live = TRUE, !.kind = "deflate", !.raw = raw,
                                !.inits = s.inits + 1, !.ends = s.ends]
    ELSE s
inflateInit2(s, raw, ok) ==
    IF ok THEN [NoStream EXCEPT !.live = TRUE, !.kind = "inflate", !.raw = raw,
                                !.inits = s.inits + 1, !.ends = s.ends]
    ELSE s
deflateEnd(s) == [s EXCEPT !.live = FALSE, !.ends = @ + 1]
inflateEnd(s) == [s EXCEPT !.live = FALSE, !.ends = @ + 1]

\* the compressed bytes one deflate call may make ready, beyond those still
\* pending: the whole stream on the first Z_FINISH, something for new input;
\* a sync flush called again after it filled the output window may repeat
\* its marker (zlib.h: "repeated flush markers")
DeflateMakes(s, flush) ==
    IF flush = "Z_FINISH" THEN (IF s.fin THEN {0} ELSE CompLens)
    ELSE IF s.avail_in = 0
    THEN (IF flush = "Z_SYNC_FLUSH" THEN {0, SyncMarker + 1} ELSE {0})
    ELSE IF flush = "Z_SYNC_FLUSH" THEN SyncOut
    ELSE NoFlushOut

\* the input bytes one deflate call may leave untaken: none while there is
\* room in the output window; when the call fills the window, possibly some
DeflateLeaves(s, p) ==
    IF s.avail_in > 1 /\ s.pend + p >= s.avail_out THEN {0, 1} ELSE {0}

\* deflate: Z_STREAM_ERROR on an inconsistent stream (no state, or no input
\* buffer for a non-zero avail_in); else the input offered is taken, all of
\* it unless the output window fills up, and as much of the ready output as
\* fits is written at next_out
deflate(s, flush, srcNull, p, left) ==
    IF ~s.live \/ (srcNull /\ s.avail_in # 0)
    THEN [strm |-> s, rc |-> "Z_STREAM_ERROR", k |-> 0]
    ELSE LET ready == s.pend + p
             k == Min(s.avail_out, ready)
         IN [strm |-> [s EXCEPT !.pend = ready - k,
                                !.next_in = @ + (s.avail_in - left),
                                !.avail_in = left,
                                !.next_out = @ + k, !.avail_out = @ - k,
                                !.fin = (@ \/ flush = "Z_FINISH")],
             rc |-> IF flush = "Z_FINISH" /\ ready = k THEN "Z_STREAM_END"
                    ELSE IF k = 0 /\ s.avail_in = 0 THEN "Z_BUF_ERROR"
                    ELSE "Z_OK",
             k |-> k]

\* the plain bytes that can be decoded from the first `fed` bytes of a stream
Decodable(src, fed) == IF fed >= src.len THEN src.plain ELSE Min(src.plain, fed)

\* inflate: Z_STREAM_ERROR on an inconsistent stream, Z_MEM_ERROR when zlib
\* cannot allocate, Z_DATA_ERROR on input that is no stream of the stream's
\* mode; else the input offered is taken and as much plain output as fits is
\* written at next_out.  Z_NEED_DICT belongs to the zlib format, which neither
\* window-bits value of the wrappers selects.
inflate(s, src, fed, outp, memErr) ==
    IF ~s.live \/ (src.null /\ s.avail_in # 0)
    THEN [strm |-> s, rc |-> "Z_STREAM_ERROR", k |-> 0]
    ELSE IF memErr THEN [strm |-> s, rc |-> "Z_MEM_ERROR", k |-> 0]
    ELSE IF fed + s.avail_in > 0 /\ (~src.valid \/ src.raw # s.raw)
    THEN [strm |-> [s EXCEPT !.next_in = @ + s.avail_in, !.avail_in = 0],
          rc |-> "Z_DATA_ERROR", k |-> 0]
    ELSE LET k == Min(s.avail_out, Decodable(src, fed + s.avail_in) - outp)
         IN [strm |-> [s EXCEPT !.next_in = @ + s.avail_in, !.avail_in = 0,
                                !.next_out = @ + k, !.avail_out = @ - k],
             rc |-> IF src.valid /\ fed + s.avail_in = src.len
                       /\ outp + k = src.plain THEN "Z_STREAM_END"
                    ELSE IF k = 0 /\ s.avail_in = 0 THEN "Z_BUF_ERROR"
                    ELSE "Z_OK",
             k |-> k]

\* ---- a wrapper call: its arguments, its locals and how it ended
IdleCall == [op |-> "none", pc |-> "idle", outcome |-> "none", ret |-> 0,
             src |-> NoSrc, sizeSrc |-> 0, raw |-> FALSE,
             dst |-> Z_NULL, sizeDst |-> 0, i |-> 0, iterations |-> 0,
             rmndr |-> 0, flush |-> "Z_NO_FLUSH",
             inloop |-> FALSE,     \* inside the do-while of the current chunk
             base |-> 0,           \* the blocks that existed when the call began
             segs |-> << >>,       \* what has been written into *dst
             produced |-> 0,       \* bytes the codec has written in this call
             fed |-> 0,            \* bytes the codec has taken in this call
             envfail |-> FALSE,    \* zlib or the allocator has refused something
             dictLength |-> 0, dictionary |-> "none"]

\* the record of one zlib call: the stream as handed over, and the outcome
ZCall(fn, flush, s, d, cap) ==
    [fn |-> fn, flush |-> flush, next_in |-> s.next_in, avail_in |-> s.avail_in,
     next_out |-> s.next_out, avail_out |-> s.avail_out, cap |-> cap,
     rc |-> d.rc, wrote |-> d.k, taken |-> s.avail_in - d.strm.avail_in]

\* the call's books after a codec call that took s.avail_in bytes and wrote
\* d.k bytes at s.next_out
Wrote(c, s, d) ==
    [c EXCEPT !.segs = IF d.k = 0 THEN @
                       ELSE Append(@, [off |-> s.next_out, from |-> c.produced,
                                       len |-> d.k]),
              !.produced = @ + d.k,
              !.fed = @ + (s.avail_in - d.strm.avail_in)]

\* throw std::runtime_error: the call is over; after a double free the
\* process may as well have been aborted by the allocator
Thrown(c, h, env) ==
    {[c EXCEPT !.pc = "done", !.outcome = o, !.envfail = (@ \/ env)] :
        o \in IF DoubleFreed(h) THEN {"threw", "aborted"} ELSE {"threw"}}
ReturnAllocated(c, n) ==
    [c EXCEPT !.pc = "done", !.outcome = "returned", !.ret = c.sizeDst]
Return(c, n) == [c EXCEPT !.pc = "done", !.outcome = "returned", !.ret = n]

\* the first n bytes of the buffer are the first n bytes of the codec's
\* output stream, written in order
RECURSIVE PrefixFrom(_, _, _)
PrefixFrom(segs, at, n) ==
    IF at >= n THEN TRUE
    ELSE IF segs = << >> THEN FALSE
    ELSE /\ Head(segs).off = at /\ Head(segs).from = at
         /\ PrefixFrom(Tail(segs), at + Head(segs).len, n)
HoldsStream(segs, n) == PrefixFrom(segs, 0, n)

\* the buffer a returned nvj_gzip call hands back, seen as a source: a
\* stream of the input iff it is the whole of what deflate produced
Compressed(c, s) ==
    [null |-> FALSE, len |-> c.ret, plain |-> c.sizeSrc, raw |-> c.raw,
     valid |-> (s.fin /\ s.pend = 0 /\ c.ret = c.produced
                /\ HoldsStream(c.segs, c.ret)),
     of |-> "nvj_gzip"]
RoundTripInputs ==
    IF cx.pc = "done" /\ cx.op = "nvj_gzip" /\ cx.outcome = "returned"
    THEN {Compressed(cx, strm)} ELSE {}

\* ---- nvj_gzip, lines 27-81
\* lines 29-46: deflateInit2, the first malloc
nvj_gzip(src, raw, initOk) ==
    /\ cx.pc = "idle"
    /\ LET c0 == [IdleCall EXCEPT !.op = "nvj_gzip", !.pc = "gzip_do", !.src = src,
                                  !.sizeSrc = src.len, !.raw = raw,
                                  !.sizeDst = CHUNK]
           s1 == deflateInit2(NoStream, raw, initOk)
       IN IF ~initOk
          THEN /\ strm' = s1 /\ heap' = heap
               /\ cx' \in Thrown(c0, heap', TRUE)
          ELSE \E m \in malloc(heap, CHUNK) :
                 /\ heap' = m[1]
                 /\ IF m[2] = Z_NULL
                    THEN /\ strm' = s1
                         /\ cx' \in Thrown(c0, heap', TRUE)
                    ELSE /\ strm' = [s1 EXCEPT !.avail_in = src.len, !.next_in = 0]
                         /\ cx' = [c0 EXCEPT !.dst = m[2], !.i = 0]
    /\ zcalls' = << >>
    /\ UNCHANGED pstream
    /\ CodecFrame

\* lines 48-80: one turn of the do-while loop, and what follows the loop
nvj_gzip_do ==
    /\ cx.pc = "gzip_do"
    /\ LET s0 == [strm EXCEPT !.avail_out = CHUNK, !.next_out = cx.i * CHUNK]
           c0 == [cx EXCEPT !.sizeDst = CHUNK * (cx.i + 1)]
       IN \E p \in DeflateMakes(s0, "Z_FINISH"), left \in {0, 1} :
            left \in DeflateLeaves(s0, p) /\
            LET d == deflate(s0, "Z_FINISH", cx.src.null, p, left)
                c1 == [Wrote(c0, s0, d) EXCEPT !.i = @ + 1]
            IN /\ zcalls' = Append(zcalls, ZCall("deflate", "Z_FINISH", s0, d,
                                                 Capacity(heap, cx.dst)))
               /\ IF d.rc = "Z_STREAM_ERROR"
                  THEN /\ strm' = d.strm
                       /\ heap' = free(heap, cx.dst)
                       /\ cx' \in Thrown(c0, heap', FALSE)
                  ELSE IF d.strm.avail_out = 0
                  THEN \E r \in realloc(heap, cx.dst, CHUNK * (c1.i + 1)) :
                         /\ strm' = d.strm
                         /\ IF r[2] # Z_NULL
                            THEN /\ heap' = r[1]
                                 /\ cx' = [c1 EXCEPT !.dst = r[2]]
                            ELSE /\ heap' = free(free(r[1], r[2]), cx.dst)
                                 /\ cx' \in Thrown(c1, heap', TRUE)
                  ELSE /\ strm' = deflateEnd(d.strm)
                       /\ heap' = heap
                       /\ cx' = Return(c1, c1.sizeDst - d.strm.avail_out)
    /\ UNCHANGED pstream
    /\ CodecFrame

\* ---- nvj_gunzip, lines 85-156
\* lines 87-111: the null test, inflateInit2, the first malloc
nvj_gunzip(src, raw, initOk) ==
    /\ IF src.of = "nvj_gzip" THEN src \in RoundTripInputs ELSE cx.pc = "idle"
    /\ LET c0 == [IdleCall EXCEPT !.op = "nvj_gunzip", !.pc = "gunzip_do",
                                  !.src = src, !.sizeSrc = src.len, !.raw = raw,
                                  !.sizeDst = CHUNK, !.base = Len(heap)]
           s1 == inflateInit2(NoStream, raw, initOk)
       IN IF src.null
          THEN /\ strm' = NoStream /\ heap' = heap
               /\ cx' \in Thrown(c0, heap', FALSE)
          ELSE IF ~initOk
          THEN /\ strm' = s1 /\ heap' = heap
               /\ cx' \in Thrown(c0, heap', TRUE)
          ELSE \E m \in malloc(heap, CHUNK) :
                 /\ heap' = m[1]
                 /\ IF m[2] = Z_NULL
                    THEN /\ strm' = s1
                         /\ cx' \in Thrown(c0, heap', TRUE)
                    ELSE /\ strm' = [s1 EXCEPT !.avail_in = src.len, !.next_in = 0]
                         /\ cx' = [c0 EXCEPT !.dst = m[2], !.i = 0]
    /\ zcalls' = << >>
    /\ UNCHANGED pstream
    /\ CodecFrame

\* lines 113-155: one turn of the do-while loop, and what follows the loop
nvj_gunzip_do ==
    /\ cx.pc = "gunzip_do"
    /\ LET s0 == [strm EXCEPT !.avail_out = CHUNK, !.next_out = cx.i * CHUNK]
           c0 == [cx EXCEPT !.sizeDst = CHUNK * (cx.i + 1)]
       IN \E memErr \in BOOLEAN :
            LET d == inflate(s0, cx.src, cx.fed, cx.produced, memErr)
                c1 == [Wrote(c0, s0, d) EXCEPT !.i = @ + 1]
            IN /\ zcalls' = Append(zcalls, ZCall("inflate", "Z_NO_FLUSH", s0, d,
                                                 Capacity(heap, cx.dst)))
               /\ IF d.rc = "Z_STREAM_ERROR"
                  THEN /\ strm' = d.strm
                       /\ heap' = free(heap, cx.dst)
                       /\ cx' \in Thrown(c0, heap', FALSE)
                  ELSE IF d.rc \in {"Z_NEED_DICT", "Z_DATA_ERROR", "Z_MEM_ERROR"}
                  THEN /\ strm' = inflateEnd(d.strm)
                       /\ heap' = free(heap, cx.dst)
                       /\ cx' \in Thrown(c0, heap', memErr)
                  ELSE IF d.strm.avail_out = 0
                  THEN \E r \in realloc(heap, cx.dst, CHUNK * (c1.i + 1)) :
                         /\ strm' = d.strm
                         /\ IF r[2] # Z_NULL
                            THEN /\ heap' = r[1]
                                 /\ cx' = [c1 EXCEPT !.dst = r[2]]
                            ELSE /\ heap' = free(free(r[1], r[2]), cx.dst)
                                 /\ cx' \in Thrown(c1, heap', TRUE)
                  ELSE /\ strm' = inflateEnd(d.strm)
                       /\ heap' = heap
                       /\ cx' = Return(c1, c1.sizeDst - d.strm.avail_out)
    /\ UNCHANGED pstream
    /\ CodecFrame

\* the caller is done with the call's result: it frees the buffers it owns
\* and the books are closed.  The windows of the persistent stream are dead
\* between calls (every call sets them before the codec reads them) and are
\* cleared with the rest.
CallerDone ==
    /\ cx.pc = "done"
    /\ cx' = IdleCall /\ heap' = << >> /\ strm' = NoStream /\ zcalls' = << >>
    /\ pstream' = [pstream EXCEPT !.avail_in = 0, !.next_in = 0,
                                  !.avail_out = 0, !.next_out = 0]
    /\ CodecFrame

\* ---- nvj_init_stream, lines 305-311, and nvj_end_stream, lines 299-301
\* The connection initialises its stream before it uses it, ends a stream
\* it has initialised, and does not compress again on a stream that a failed
\* call has left with output pending; MaxInits bounds how often it starts
\* over.
nvj_init_stream(raw, ok) ==
    /\ cx.pc = "idle" /\ ~pstream.live /\ pstream.inits < MaxInits
    /\ pstream' = deflateInit2(pstream, raw, ok)
    /\ UNCHANGED <<strm, heap, cx, zcalls>>
    /\ CodecFrame

nvj_end_stream ==
    /\ cx.pc = "idle" /\ pstream.live
    /\ pstream' = deflateEnd(pstream)
    /\ UNCHANGED <<strm, heap, cx, zcalls>>
    /\ CodecFrame

\* ---- nvj_gzip_websocket_v2, lines 160-293
\* where the call goes once chunk i is done or there is none
AfterChunks(c) == IF c.i < c.iterations THEN "for"
                  ELSE IF c.rmndr # 0 THEN "rest" ELSE "tail"

\* lines 163-171: the locals
nvj_gzip_websocket_v2(src) ==
    /\ cx.pc = "idle" /\ pstream.inits > 0 /\ pstream.pend = 0
    /\ LET c0 == [IdleCall EXCEPT !.op = "nvj_gzip_websocket_v2", !.src = src,
                                  !.sizeSrc = src.len, !.raw = pstream.raw,
                                  !.sizeDst = 0,
                                  !.iterations = src.len \div CHUNK,
                                  !.rmndr = src.len % CHUNK,
                                  !.flush = "Z_NO_FLUSH", !.dst = Z_NULL]
       IN cx' = [c0 EXCEPT !.pc = "gzip_ws_" \o AfterChunks(c0)]
    /\ zcalls' = << >>
    /\ UNCHANGED <<strm, pstream, heap>>
    /\ CodecFrame

\* leaving the do-while of whole chunk i: i++ and the for test (line 176)
NextChunk(c) == LET c1 == [c EXCEPT !.i = @ + 1, !.inloop = FALSE]
                IN [c1 EXCEPT !.pc = "gzip_ws_" \o AfterChunks(c1)]
\* leaving the do-while of the remainder (line 265)
ToTail(c) == [c EXCEPT !.inloop = FALSE, !.pc = "gzip_ws_tail"]

GrowToProduced(c) == c.sizeDst

\* lines 192, 241, 355 and 401: the size the buffer is brought to before a
\* codec call of the streaming wrappers, (sizeDst + CHUNK) * sizeof (char)
GrowTo(c) == c.sizeDst + CHUNK

\* one turn of a do-while loop of nvj_gzip_websocket_v2 (lines 190-222 and
\* 239-265) on the stream s0 with flush mode fl, in the for loop or in the
\* remainder
GzipWsTurn(c0, s0, fl, inFor) ==
    \E r \in realloc(heap, c0.dst, GrowTo(c0)) :
        IF r[2] = Z_NULL
        THEN /\ heap' = free(free(r[1], r[2]), c0.dst)
             /\ pstream' = s0
             /\ zcalls' = zcalls
             /\ cx' \in Thrown(c0, heap', TRUE)
        ELSE \E p \in DeflateMakes(s0, fl), left \in {0, 1} :
               left \in DeflateLeaves([s0 EXCEPT !.avail_out = CHUNK], p) /\
               LET s1 == [s0 EXCEPT !.avail_out = CHUNK, !.next_out = c0.sizeDst]
                   d == deflate(s1, fl, c0.src.null, p, left)
                   c1 == [Wrote([c0 EXCEPT !.dst = r[2]], s1, d) EXCEPT
                              !.sizeDst = @ + (CHUNK - d.strm.avail_out)]
               IN /\ zcalls' = Append(zcalls, ZCall("deflate", fl, s1, d,
                                                    Capacity(r[1], r[2])))
                  /\ pstream' = d.strm
                  /\ IF d.rc = "Z_STREAM_ERROR"
                     THEN /\ heap' = free(r[1], r[2])
                          /\ cx' \in Thrown([c0 EXCEPT !.dst = r[2]], heap', FALSE)
                     ELSE /\ heap' = r[1]
                          /\ cx' = IF d.strm.avail_out = 0
                                   THEN [c1 EXCEPT !.inloop = TRUE]
                                   ELSE IF inFor THEN NextChunk(c1)
                                   ELSE ToTail(c1)

\* lines 176-224: the for loop over the whole chunks
\* lines 178-180: the flush mode of whole chunk i
ChunkFlushAlwaysSync(c) == "Z_SYNC_FLUSH"
ChunkFlush(c) == IF c.i = c.iterations - 1 /\ c.rmndr = 0
                 THEN "Z_SYNC_FLUSH" ELSE c.flush
nvj_gzip_ws_for ==
    /\ cx.pc = "gzip_ws_for"
    /\ LET fl == ChunkFlush(cx)
           c0 == [cx EXCEPT !.flush = fl]
           s0 == IF cx.inloop THEN pstream
                 ELSE [pstream EXCEPT !.avail_in = CHUNK, !.next_in = cx.i * CHUNK]
       IN GzipWsTurn(c0, s0, fl, TRUE)
    /\ UNCHANGED strm
    /\ CodecFrame

\* lines 230-268: the remainder
nvj_gzip_ws_rest ==
    /\ cx.pc = "gzip_ws_rest"
    /\ LET s0 == IF cx.inloop THEN pstream
                 ELSE [pstream EXCEPT !.avail_in = cx.rmndr,
                                      !.next_in = cx.iterations * CHUNK]
       IN GzipWsTurn(cx, s0, "Z_SYNC_FLUSH", FALSE)
    /\ UNCHANGED strm
    /\ CodecFrame

\* lines 270-291: the trim and the final realloc
nvj_gzip_ws_tail_deflateEnd ==
    /\ cx.pc = "gzip_ws_tail"
    /\ LET c0 == [cx EXCEPT !.sizeDst = @ - 4]
       IN \E r \in realloc(heap, c0.dst, c0.sizeDst) :
            IF r[2] # Z_NULL
            THEN /\ heap' = r[1]
                 /\ cx' = Return([c0 EXCEPT !.dst = r[2]], c0.sizeDst)
            ELSE /\ heap' = free(free(r[1], r[2]), c0.dst)
                 /\ cx' \in Thrown(c0, heap', ~Wrapped(c0.sizeDst))
    /\ pstream' = deflateEnd(pstream)
    /\ UNCHANGED <<strm, zcalls>>
    /\ CodecFrame

nvj_gzip_ws_tail ==
    /\ cx.pc = "gzip_ws_tail"
    /\ LET c0 == [cx EXCEPT !.sizeDst = @ - 4]
       IN \E r \in realloc(heap, c0.dst, c0.sizeDst) :
            IF r[2] # Z_NULL
            THEN /\ heap' = r[1]
                 /\ cx' = Return([c0 EXCEPT !.dst = r[2]], c0.sizeDst)
            ELSE /\ heap' = free(free(r[1], r[2]), c0.dst)
                 /\ cx' \in Thrown(c0, heap', ~Wrapped(c0.sizeDst))
    /\ UNCHANGED <<strm, pstream, zcalls>>
    /\ CodecFrame

\* ---- nvj_gunzip_websocket_v2, lines 315-458
\* inflateSetDictionary: Z_STREAM_ERROR on a stream that is not raw (the gzip
\* wrapper takes no preset dictionary); on a raw stream Z_OK, or Z_MEM_ERROR
\* when the window cannot be allocated
SetDictionaryResults(s) == IF s.raw THEN {"Z_OK", "Z_MEM_ERROR"}
                           ELSE {"Z_STREAM_ERROR"}
\* a zlib call that moves no data, on record
ZNote(fn, s, rc) ==
    ZCall(fn, "none", s, [rc |-> rc, k |-> 0, strm |-> s], 0)

HasDictionaryAlways(dictLength) == TRUE

\* line 340: if( *dictLength != 0)
HasDictionary(dictLength) == dictLength # 0

\* lines 319-345: the locals, the null test, inflateInit2, the dictionary.
\* The caller passes a dictionary buffer and a pointer to its length.
nvj_gunzip_websocket_v2(src, raw, dictLength, initOk) ==
    /\ cx.pc = "idle"
    /\ LET c0 == [IdleCall EXCEPT !.op = "nvj_gunzip_websocket_v2", !.src = src,
                                  !.sizeSrc = src.len, !.raw = raw,
                                  !.sizeDst = 0,
                                  !.iterations = src.len \div CHUNK,
                                  !.rmndr = src.len % CHUNK, !.dst = Z_NULL,
                                  !.dictLength = dictLength,
                                  !.dictionary = "caller"]
           c1 == [c0 EXCEPT !.pc = "gunzip_ws_" \o AfterChunks(c0)]
           s1 == inflateInit2(NoStream, raw, initOk)
       IN IF src.null
          THEN /\ strm' = NoStream /\ zcalls' = << >>
               /\ cx' \in Thrown(c0, heap, FALSE)
          ELSE IF ~initOk
          THEN /\ strm' = s1 /\ zcalls' = << >>
               /\ cx' \in Thrown(c0, heap, TRUE)
          ELSE IF HasDictionary(dictLength)
          THEN \E rc \in SetDictionaryResults(s1) :
                 /\ zcalls' = <<ZNote("inflateSetDictionary", s1, rc)>>
                 /\ IF rc # "Z_OK"
                    THEN /\ strm' = s1
                         /\ cx' \in Thrown(c0, heap, rc = "Z_MEM_ERROR")
                    ELSE /\ strm' = [s1 EXCEPT !.dict = dictLength]
                         /\ cx' = c1
          ELSE /\ strm' = s1 /\ zcalls' = << >>
               /\ cx' = c1
    /\ UNCHANGED <<pstream, heap>>
    /\ CodecFrame

\* leaving the do-while of whole chunk i: i++ and the for test (line 347)
NextChunkIn(c) == LET c1 == [c EXCEPT !.i = @ + 1, !.inloop = FALSE]
                  IN [c1 EXCEPT !.pc = "gunzip_ws_" \o AfterChunks(c1)]
\* leaving the do-while of the remainder (line 436)
ToTailIn(c) == [c EXCEPT !.inloop = FALSE, !.pc = "gunzip_ws_tail"]

\* one turn of a do-while loop of nvj_gunzip_websocket_v2 (lines 353-390 and
\* 399-436) on the stream s0, in the for loop or in the remainder
GunzipWsTurn(c0, s0, inFor) ==
    \E r \in realloc(heap, c0.dst, GrowTo(c0)) :
        IF r[2] = Z_NULL
        THEN /\ heap' = free(free(r[1], r[2]), c0.dst)
             /\ strm' = s0
             /\ zcalls' = zcalls
             /\ cx' \in Thrown(c0, heap', TRUE)
        ELSE \E memErr \in BOOLEAN :
               LET s1 == [s0 EXCEPT !.avail_out = CHUNK, !.next_out = c0.sizeDst]
                   d == inflate(s1, c0.src, c0.fed, c0.produced, memErr)
                   c1 == [Wrote([c0 EXCEPT !.dst = r[2]], s1, d) EXCEPT
                              !.sizeDst = @ + (CHUNK - d.strm.avail_out)]
               IN /\ zcalls' = Append(zcalls, ZCall("inflate", "Z_NO_FLUSH", s1, d,
                                                    Capacity(r[1], r[2])))
                  /\ IF d.rc = "Z_STREAM_ERROR"
                     THEN /\ strm' = d.strm
                          /\ heap' = free(r[1], r[2])
                          /\ cx' \in Thrown([c0 EXCEPT !.dst = r[2]], heap', FALSE)
                     ELSE IF d.rc \in {"Z_NEED_DICT", "Z_DATA_ERROR", "Z_MEM_ERROR"}
                     THEN /\ strm' = inflateEnd(d.strm)
                          /\ heap' = free(r[1], r[2])
                          /\ cx' \in Thrown([c0 EXCEPT !.dst = r[2]], heap', memErr)
                     ELSE /\ strm' = d.strm
                          /\ heap' = r[1]
                          /\ cx' = IF d.strm.avail_out = 0
                                   THEN [c1 EXCEPT !.inloop = TRUE]
                                   ELSE IF inFor THEN NextChunkIn(c1)
                                   ELSE ToTailIn(c1)

\* lines 347-392: the for loop over the whole chunks
nvj_gunzip_ws_for ==
    /\ cx.pc = "gunzip_ws_for"
    /\ LET s0 == IF cx.inloop THEN strm
                 ELSE [strm EXCEPT !.avail_in = CHUNK, !.next_in = cx.i * CHUNK]
       IN GunzipWsTurn(cx, s0, TRUE)
    /\ UNCHANGED pstream
    /\ CodecFrame

\* lines 394-438: the remainder
nvj_gunzip_ws_rest ==
    /\ cx.pc = "gunzip_ws_rest"
    /\ LET s0 == IF cx.inloop THEN strm
                 ELSE [strm EXCEPT !.avail_in = cx.rmndr,
                                   !.next_in = cx.iterations * CHUNK]
       IN GunzipWsTurn(cx, s0, FALSE)
    /\ UNCHANGED pstream
    /\ CodecFrame

\* lines 440-457: the final realloc, the dictionary handed back, inflateEnd.
\* inflateGetDictionary copies the window out: what was installed and what
\* has been produced since, up to the window's size.
nvj_gunzip_ws_tail ==
    /\ cx.pc = "gunzip_ws_tail"
    /\ \E r \in realloc(heap, cx.dst, cx.sizeDst) :
         IF r[2] # Z_NULL
         THEN /\ heap' = r[1]
              /\ zcalls' = Append(zcalls, ZNote("inflateGetDictionary", strm, "Z_OK"))
              /\ strm' = inflateEnd(strm)
              /\ cx' = Return([cx EXCEPT !.dst = r[2], !.dictionary = "window",
                                           !.dictLength = strm.dict + cx.produced],
                                cx.sizeDst)
         ELSE /\ heap' = free(free(r[1], r[2]), cx.dst)
              /\ zcalls' = zcalls
              /\ strm' = strm
              /\ cx' \in Thrown(cx, heap', TRUE)
    /\ UNCHANGED pstream
    /\ CodecFrame

-----------------------------------------------------------------------------
(* The parts at rest: what each specification leaves alone.                *)

ParamsOff  == pRaw = EmptyStr /\ paramstr = EmptyStr /\ pPc = "off"
              /\ parameters = EmptyMap
CookiesOff == cRaw = EmptyStr /\ cookies = EmptyMap /\ cPc = "off"
FieldsOff  == fields = [f \in Fields |-> NoField("unborn")]
              /\ fs = [q \in {} |-> << >>] /\ mutex = 0 /\ fcall = NoCall
SessionsOff == sessions = [x \in {} |-> NewSession] /\ created = {}
               /\ req = [r \in Requests |-> NoRequest]
               /\ call = Called(0, "none", EmptyStr, 0, 0)
CodecOff == strm = NoStream /\ pstream = NoStream /\ heap = << >>
            /\ cx = IdleCall /\ zcalls = << >>

-----------------------------------------------------------------------------
(* SpecParams: decodParams on every raw string RawInput admits.               *)

\* line 378: if (params != NULL && strlen(params)) decodParams(params)
DecodBegin ==
    /\ pPc = "ctor"
    /\ pPc' = IF Len(pRaw) > 0 THEN "pass1" ELSE "done"
    /\ paramstr' = pRaw
    /\ UNCHANGED <<pRaw, parameters>>
    /\ ParamsFrame

\* lines 65-92
DecodPass1 ==
    /\ pPc = "pass1"
    /\ \E uninit \in UninitValues : paramstr' = Pass1Loop(paramstr, 0, uninit)
    /\ pPc' = "pass2"
    /\ UNCHANGED <<pRaw, parameters>>
    /\ ParamsFrame

\* lines 94-110
DecodPass2 ==
    /\ pPc = "pass2"
    /\ parameters' = Pass2Loop(paramstr, 0, parameters)
    /\ pPc' = "done"
    /\ UNCHANGED <<pRaw, paramstr>>
    /\ ParamsFrame

InitParams ==
    /\ RawInput(pRaw) /\ paramstr = EmptyStr /\ pPc = "ctor"
    /\ parameters = EmptyMap
    /\ CookiesOff /\ FieldsOff /\ SessionsOff /\ CodecOff

NextParams ==
    \/ DecodBegin
    \/ DecodPass1
    \/ DecodPass2

SpecParams == InitParams /\ [][NextParams]_vars

-----------------------------------------------------------------------------
(* SpecEscapes: decodParams on every string of up to MaxTokens characters  *)
(* of  % + & a : every placing of a '%' before a '%', a hex digit, another *)
(* character or the end of the string.                                     *)

EscapeChars == {PERCENT, PLUS, AMP, 97}
EscapeInputs == UNION { [1..n -> EscapeChars] : n \in 0..MaxTokens }

InitEscapes ==
    /\ pRaw \in EscapeInputs /\ paramstr = EmptyStr /\ pPc = "ctor"
    /\ parameters = EmptyMap
    /\ CookiesOff /\ FieldsOff /\ SessionsOff /\ CodecOff

SpecEscapes == InitEscapes /\ [][NextParams]_vars

-----------------------------------------------------------------------------
(* SpecCookies: decodCookies on every raw string of CookieInputs.          *)

\* lines 381-382: if (cookies != NULL && strlen(cookies)) decodCookies(cookies)
DecodCookies ==
    /\ cPc = "ctor"
    /\ cookies' = IF Len(cRaw) > 0 THEN decodCookies(cRaw, cookies) ELSE cookies
    /\ cPc' = "done"
    /\ UNCHANGED cRaw
    /\ CookiesFrame

InitCookies ==
    /\ cRaw \in CookieInputs /\ cookies = EmptyMap /\ cPc = "ctor"
    /\ ParamsOff /\ FieldsOff /\ SessionsOff /\ CodecOff

NextCookies == DecodCookies

SpecCookies == InitCookies /\ [][NextCookies]_vars

-----------------------------------------------------------------------------
(* SpecField: one Field, every operation, every chunk of Chunks.           *)

Solo == {1}

InitField ==
    /\ FieldsOff
    /\ ParamsOff /\ CookiesOff /\ SessionsOff /\ CodecOff

NextField ==
    \/ \E f \in Solo, w \in UninitWhere : Construct(f, w)
    \/ \E f \in Solo : Destroy(f)
    \/ \E f \in Solo, t \in TypeValues : SetType(f, t)
    \/ \E f \in Solo : GetType(f)
    \/ \E f \in Solo, d \in TempDirs : SetTempDir(f, d)
    \/ \E f \in Solo, w \in WhereValues : SetUploadedFilesStorage(f, w)
    \/ \E f \in Solo, n \in FileNames : SetFileName(f, n)
    \/ \E f \in Solo, m \in MimeTypes : SetFileContentType(f, m)
    \/ \E f \in Solo, data \in Chunks : AcceptSomeData(f, data)
    \/ \E f \in Solo : AcquireLock(f)
    \/ \E f \in Solo : Probe(f)
    \/ \E f \in Solo, granted \in BOOLEAN : CreateFile(f, granted)
    \/ \E f \in Solo : WriteData(f)
    \/ \E f \in Solo, beyond \in Beyond : GetTextTypeContent(f, beyond)
    \/ \E f \in Solo : GetFileContentSize(f)
    \/ \E f \in Solo : GetFileContent(f)
    \/ \E f \in Solo : GetTempFileName(f)
    \/ \E f \in Solo : GetFileName(f)
    \/ \E f \in Solo : GetFileMimeType(f)

SpecField == InitField /\ [][NextField]_vars

-----------------------------------------------------------------------------
(* SpecTempFiles: NumFields workers, each with a File Field of its own in  *)
(* filesystem mode, all uploading to the one temp directory "tmp", in      *)
(* which a file of an earlier run may be left.                             *)

OneChunk == {<<97>>}
StaleFiles == {[q \in {} |-> << >>], [q \in {<<"tmp", 1>>} |-> << >>]}

InitTempFiles ==
    /\ fields = [f \in Fields |-> NoField("unborn")]
    /\ fs \in StaleFiles /\ mutex = 0 /\ fcall = NoCall
    /\ ParamsOff /\ CookiesOff /\ SessionsOff /\ CodecOff

NextTempFiles ==
    \/ \E f \in Fields : Construct(f, StoreUploadedFilesInFilesystem)
    \/ \E f \in Fields : Destroy(f)
    \/ \E f \in Fields : SetType(f, FileType)
    \/ \E f \in Fields, d \in TempDirs : SetTempDir(f, d)
    \/ \E f \in Fields, data \in OneChunk : AcceptSomeData(f, data)
    \/ \E f \in Fields : AcquireLock(f)
    \/ \E f \in Fields : Probe(f)
    \/ \E f \in Fields, granted \in BOOLEAN : CreateFile(f, granted)
    \/ \E f \in Fields : WriteData(f)
    \/ \E f \in Fields : GetTempFileName(f)

SpecTempFiles == InitTempFiles /\ [][NextTempFiles]_vars

-----------------------------------------------------------------------------
(* SpecUploads: NumFields workers, each with a File Field of its own in    *)
(* filesystem mode; a Field may be pointed at either of two upload         *)
(* directories at any time of its life.                                    *)

UploadDirs == {"tmp", "up"}

InitUploads ==
    /\ fields = [f \in Fields |-> NoField("unborn")]
    /\ fs = [q \in {} |-> << >>] /\ mutex = 0 /\ fcall = NoCall
    /\ ParamsOff /\ CookiesOff /\ SessionsOff /\ CodecOff

NextUploads ==
    \/ \E f \in Fields : Construct(f, StoreUploadedFilesInFilesystem)
    \/ \E f \in Fields : Destroy(f)
    \/ \E f \in Fields : SetType(f, FileType)
    \/ \E f \in Fields, d \in UploadDirs : SetTempDir(f, d)
    \/ \E f \in Fields, data \in OneChunk : AcceptSomeData(f, data)
    \/ \E f \in Fields : AcquireLock(f)
    \/ \E f \in Fields : Probe(f)
    \/ \E f \in Fields, granted \in BOOLEAN : CreateFile(f, granted)
    \/ \E f \in Fields : WriteData(f)
    \/ \E f \in Fields : GetTempFileName(f)

SpecUploads == InitUploads /\ [][NextUploads]_vars

-----------------------------------------------------------------------------
(* SpecLock: NumFields workers, each with a Field of its own that it sets  *)
(* up once, as the parser does after creating a Field for an uploaded      *)
(* file: type FileType, either storage mode, temp directory "tmp" (in      *)
(* which a file of an earlier run is left) or none yet. A worker that is   *)
(* inside AcceptSomeData keeps running: the steps between                  *)
(* pthread_mutex_lock and pthread_mutex_unlock (lines 59-79) take no other *)
(* lock and wait for nothing, so each is taken once it is enabled.         *)

NoType(f) == fields[f].type = 0
NoTempDir(f) == fields[f].TempDir = ""

InitLock ==
    /\ fields = [f \in Fields |-> NoField("unborn")]
    /\ fs = [q \in {<<"tmp", 1>>} |-> << >>] /\ mutex = 0 /\ fcall = NoCall
    /\ ParamsOff /\ CookiesOff /\ SessionsOff /\ CodecOff

NextLock ==
    \/ \E f \in Fields, w \in WhereValues : Construct(f, w)
    \/ \E f \in Fields : NoTempDir(f) /\ SetTempDir(f, "tmp")
    \/ \E f \in Fields : NoType(f) /\ SetType(f, FileType)
    \/ \E f \in Fields, data \in OneChunk : AcceptSomeData(f, data)
    \/ \E f \in Fields : AcquireLock(f)
    \/ \E f \in Fields : Probe(f)
    \/ \E f \in Fields, granted \in BOOLEAN : CreateFile(f, granted)
    \/ \E f \in Fields : WriteData(f)

WorkerRuns(f) ==
    /\ WF_vars(Probe(f))
    /\ WF_vars(\E granted \in BOOLEAN : CreateFile(f, granted))

SpecLock ==
    InitLock /\ [][NextLock]_vars /\ \A f \in Fields : WorkerRuns(f)

-----------------------------------------------------------------------------
(* SpecSession: NumRequests workers, each constructing, using and          *)
(* destroying Requests against the one session store, which may expire a   *)
(* session at any time and hands out at most MaxSessions ids.              *)

InitSession ==
    /\ SessionsOff
    /\ ParamsOff /\ CookiesOff /\ FieldsOff /\ CodecOff

NextSession ==
    \/ \E r \in Requests, p \in ParamHeaders, c \in CookieHeaders,
          u \in UninitValues : HttpRequest(r, p, c, u)
    \/ \E r \in Requests : DestroyRequest(r)
    \/ \E r \in Requests : initSessionId(r)
    \/ \E r \in Requests : IsSessionValidCall(r)
    \/ \E r \in Requests, fresh \in SessionIds : createSession(r, fresh)
    \/ \E r \in Requests : removeSession(r)
    \/ \E r \in Requests, n \in AttrNames, v \in AttrValues, fresh \in SessionIds :
          setSessionAttribute(r, n, v, fresh)
    \/ \E r \in Requests, n \in AttrNames, v \in ObjectValues, fresh \in SessionIds :
          setSessionObjectAttribute(r, n, v, fresh)
    \/ \E r \in Requests, n \in AttrNames : getSessionAttribute(r, n)
    \/ \E r \in Requests, n \in AttrNames : getSessionObjectAttribute(r, n)
    \/ \E r \in Requests : getSessionAttributeNames(r)
    \/ \E r \in Requests, n \in AttrNames : getSessionRemoveAttribute(r, n)
    \/ \E id \in SessionIds : StoreExpire(id)

SpecSession == InitSession /\ [][NextSession]_vars

-----------------------------------------------------------------------------
(* SpecCodec: one worker calling the wrappers that set up their own codec  *)
(* context, one call after the other, on every input of CompressInputs and *)
(* DecodeInputs and on what nvj_gzip returned.                             *)

InitCodec ==
    /\ CodecOff
    /\ ParamsOff /\ CookiesOff /\ FieldsOff /\ SessionsOff

NextCodec ==
    \/ \E src \in CompressInputs, raw \in BOOLEAN, initOk \in BOOLEAN :
          nvj_gzip(src, raw, initOk)
    \/ nvj_gzip_do
    \/ \E src \in DecodeInputs \cup RoundTripInputs, raw \in BOOLEAN,
          initOk \in BOOLEAN : nvj_gunzip(src, raw, initOk)
    \/ nvj_gunzip_do
    \/ \E src \in DecodeInputs, raw \in BOOLEAN, dictLength \in DictLengths,
          initOk \in BOOLEAN : nvj_gunzip_websocket_v2(src, raw, dictLength, initOk)
    \/ nvj_gunzip_ws_for
    \/ nvj_gunzip_ws_rest
    \/ nvj_gunzip_ws_tail
    \/ CallerDone

SpecCodec == InitCodec /\ [][NextCodec]_vars

-----------------------------------------------------------------------------
(* SpecStream: one connection with its persistent deflate stream, calling  *)
(* nvj_gzip_websocket_v2 on every input of CompressInputs.                 *)

InitStream ==
    /\ CodecOff
    /\ ParamsOff /\ CookiesOff /\ FieldsOff /\ SessionsOff

NextStream ==
    \/ \E raw \in BOOLEAN, ok \in BOOLEAN : nvj_init_stream(raw, ok)
    \/ nvj_end_stream
    \/ \E src \in CompressInputs : nvj_gzip_websocket_v2(src)
    \/ nvj_gzip_ws_for
    \/ nvj_gzip_ws_rest
    \/ nvj_gzip_ws_tail
    \/ CallerDone

SpecStream == InitStream /\ [][NextStream]_vars

-----------------------------------------------------------------------------
(* SpecLoops: one worker with one connection, calling all four wrappers,   *)
(* one call after the other.                                               *)

InitLoops ==
    /\ CodecOff
    /\ ParamsOff /\ CookiesOff /\ FieldsOff /\ SessionsOff

NextLoops ==
    \/ \E src \in CompressInputs, raw \in BOOLEAN, initOk \in BOOLEAN :
          nvj_gzip(src, raw, initOk)
    \/ nvj_gzip_do
    \/ \E src \in DecodeInputs, raw \in BOOLEAN, initOk \in BOOLEAN :
          nvj_gunzip(src, raw, initOk)
    \/ nvj_gunzip_do
    \/ \E src \in DecodeInputs, raw \in BOOLEAN, dictLength \in DictLengths,
          initOk \in BOOLEAN : nvj_gunzip_websocket_v2(src, raw, dictLength, initOk)
    \/ nvj_gunzip_ws_for
    \/ nvj_gunzip_ws_rest
    \/ nvj_gunzip_ws_tail
    \/ \E raw \in BOOLEAN, ok \in BOOLEAN : nvj_init_stream(raw, ok)
    \/ nvj_end_stream
    \/ \E src \in CompressInputs : nvj_gzip_websocket_v2(src)
    \/ nvj_gzip_ws_for
    \/ nvj_gzip_ws_rest
    \/ nvj_gzip_ws_tail
    \/ CallerDone

SpecLoops == InitLoops /\ [][NextLoops]_vars

-----------------------------------------------------------------------------
(* Reference definitions the statements below compare the code with.       *)

SetMin(S) == CHOOSE x \in S : \A y \in S : x <= y
SetMax(S) == CHOOSE x \in S : \A y \in S : x >= y

RefHexValue(c) ==
    CHOOSE v \in 0..15 :
        (v < 10 /\ c = 48 + v) \/ (v >= 10 /\ (c = 55 + v \/ c = 87 + v))

RefIsHex(c) ==
    \E v \in 0..15 :
        (v < 10 /\ c = 48 + v) \/ (v >= 10 /\ (c = 55 + v \/ c = 87 + v))

RECURSIVE WellFormed(_)
\* every '%' starts a '%%' or a '%XX' with two hex digits
WellFormed(s) ==
    IF Len(s) = 0 THEN TRUE
    ELSE IF s[1] # PERCENT THEN WellFormed(Tail(s))
    ELSE IF Len(s) >= 2 /\ s[2] = PERCENT THEN WellFormed(SubSeq(s, 3, Len(s)))
    ELSE /\ Len(s) >= 3 /\ RefIsHex(s[2]) /\ RefIsHex(s[3])
         /\ WellFormed(SubSeq(s, 4, Len(s)))

RECURSIVE RefDecode(_)
\* the decoding of a well-formed string, token by token
RefDecode(s) ==
    IF Len(s) = 0 THEN << >>
    ELSE IF s[1] = PLUS THEN <<SPACE>> \o RefDecode(Tail(s))
    ELSE IF s[1] # PERCENT THEN <<s[1]>> \o RefDecode(Tail(s))
    ELSE IF s[2] = PERCENT THEN <<PERCENT>> \o RefDecode(SubSeq(s, 3, Len(s)))
    ELSE <<16 * RefHexValue(s[2]) + RefHexValue(s[3])>>
         \o RefDecode(SubSeq(s, 4, Len(s)))

\* the pieces of s between the separators `sep`, by their first positions
PieceStarts(s, sep) == {1} \cup {i + 1 : i \in {j \in 1..Len(s) : s[j] = sep}}
Piece(s, sep, a) ==
    LET later == {j \in a..Len(s) : s[j] = sep}
    IN  SubSeq(s, a, IF later = {} THEN Len(s) ELSE SetMin(later) - 1)

HasEq(seg) == \E j \in 1..Len(seg) : seg[j] = EQ
FirstEq(seg) == SetMin({j \in 1..Len(seg) : seg[j] = EQ})
BeforeEq(seg) == IF HasEq(seg) THEN SubSeq(seg, 1, FirstEq(seg) - 1) ELSE seg
AfterEq(seg) == IF HasEq(seg) THEN SubSeq(seg, FirstEq(seg) + 1, Len(seg)) ELSE << >>

\* one entry per '&'-separated segment of s, key and value each passed
\* through Dec, the last segment of a key deciding its value
RefParams(s, Dec(_)) ==
    LET starts == PieceStarts(s, AMP)
        K(a)   == Dec(BeforeEq(Piece(s, AMP, a)))
        V(a)   == Dec(AfterEq(Piece(s, AMP, a)))
    IN  [k \in {K(a) : a \in starts} |->
            V(SetMax({a \in starts : K(a) = k}))]

Same(x) == x

\* the text with its leading non-graphic characters removed
TrimLeading(k) ==
    LET g == {j \in 1..Len(k) : k[j] \in 33..126}
    IN  IF g = {} THEN << >> ELSE SubSeq(k, SetMin(g), Len(k))

\* the cookie map as the specification words it
RefCookies(c) ==
    LET starts == {a \in PieceStarts(c, SEMI) :
                     LET frag == Piece(c, SEMI, a)
                     IN  /\ HasEq(frag)
                         /\ TrimLeading(BeforeEq(frag)) # << >>
                         /\ AfterEq(frag) # << >>}
        K(a)   == TrimLeading(BeforeEq(Piece(c, SEMI, a)))
    IN  [k \in {K(a) : a \in starts} |->
            AfterEq(Piece(c, SEMI, SetMax({a \in starts : K(a) = k})))]

-----------------------------------------------------------------------------
(* Statements about decodParams and decodCookies.                          *)

\* C4: a '&' or '=' produced by percent-decoding is never taken for a
\* delimiter: for a well-formed raw string the map is the one obtained by
\* splitting the raw string at its literal '&' and '=' and decoding each key
\* and each value.
C4_DecodedDelimitersNeverSplit ==
    (pPc = "done" /\ Len(pRaw) > 0 /\ WellFormed(pRaw))
        => parameters = RefParams(pRaw, RefDecode)

\* C5: decodCookies yields exactly the map of the fragments that have an
\* '=', a non-empty trimmed key and a non-empty value, last occurrence
\* winning; every other fragment contributes nothing.
C5_CookiesSkipEmptyValue ==
    cPc = "done" => cookies = RefCookies(cRaw)

\* C8: pass 1 maps every well-formed raw string to its reference decoding,
\* each escape decoded once and no decoded character decoded again.
C8_Pass1IsReferenceDecoding ==
    (pPc \in {"pass2", "done"} /\ WellFormed(pRaw))
        => paramstr = RefDecode(pRaw)

\* "%25aa" has become "%aa": the decoded '%' was not decoded again
C8_Witness ==
    /\ pPc = "pass2"
    /\ pRaw = <<PERCENT, 50, 53, 97, 97>>
    /\ paramstr = <<PERCENT, 97, 97>>

\* C9: pass 2 stores one entry per '&'-separated segment of the decoded
\* string: the text before the segment's first '=' maps to the text after
\* it, a segment with no '=' maps to the empty string, and the last
\* occurrence of a key decides its value.
C9_Pass2OneEntryPerSegment ==
    (pPc = "done" /\ Len(pRaw) > 0)
        => parameters = RefParams(paramstr, Same)

\* "a=a&a": the key a occurs twice and holds its last value, the empty one
C9_Witness ==
    /\ pPc = "done"
    /\ paramstr = <<97, EQ, 97, AMP, 97>>
    /\ parameters = [k \in {<<97>>} |-> << >>]

-----------------------------------------------------------------------------
(* Statements about MPFD::Field.                                           *)

HasTempFile(f) == fields[f].life = "alive" /\ fields[f].file.open

\* C1: under every interleaving of the workers' AcceptSomeData calls on
\* Fields that upload to one temp directory, no two Fields that are alive
\* and have their temp file open hold the same resolved name
\* TempDir/MPFD_Temp_N.
C1_TempNamesDistinct ==
    \A f, g \in Fields :
        (f # g /\ HasTempFile(f) /\ HasTempFile(g))
            => TempPath(fields[f]) # TempPath(fields[g])

\* two Fields have finished their first AcceptSomeData in "tmp" and hold
\* MPFD_Temp_1 and MPFD_Temp_2
C1_Witness ==
    \E f, g \in Fields :
        /\ HasTempFile(f) /\ HasTempFile(g)
        /\ fields[f].pc = "idle" /\ fields[g].pc = "idle"
        /\ TempPath(fields[f]) = <<"tmp", 1>>
        /\ TempPath(fields[g]) = <<"tmp", 2>>
        /\ fields[f].nAcc = 1 /\ fields[g].nAcc = 1

\* C2: for a Text Field that was given the chunks c1..cn (n >= 1) in order,
\* GetTextTypeContent is c1 ++ ... ++ cn and the buffer holds exactly one
\* terminator, in its last cell.
C2_TextIsConcatenation ==
    \A f \in Fields :
        (Idle(f) /\ fields[f].type = TextType /\ fields[f].accModes = {"text"})
            => /\ TextTypeContent(fields[f], << >>) = fields[f].accBytes
               /\ {k \in 1..Len(fields[f].FieldContent) :
                       fields[f].FieldContent[k] = 0}
                  = {Len(fields[f].FieldContent)}

-----------------------------------------------------------------------------
(* Statements about HttpRequest's session.                                 *)

AttrReads == {"getSessionAttribute", "getSessionObjectAttribute"}
AttrWrites == {"setSessionAttribute", "setSessionObjectAttribute"}

\* C3: once removeSession has been called on a Request whose session was
\* valid, isSessionValid() is false on that Request and every attribute read
\* it makes returns NULL (until the Request creates or writes a session).
C3_RemoveSessionInvalidates ==
    \A r \in Requests :
        (Live(r) /\ req[r].removed)
            => /\ ~isSessionValid(req[r])
               /\ (call.r = r /\ call.op \in AttrReads) => call.ret = NULL

\* C6: right after construction the session id is the value of the SID
\* cookie if that cookie is there, is not empty and names a session live in
\* the store; in every other case (no cookie string among them) it is empty
\* and isSessionValid() is false.
C6_SessionAdoptedAtConstruction ==
    call.op = "HttpRequest" =>
        LET rq  == req[call.r]
            sid == IF SID \in DOMAIN rq.cookies THEN rq.cookies[SID] ELSE EmptyStr
        IN  /\ IF sid # EmptyStr /\ sid \in DOMAIN sessions
               THEN rq.sessionId = sid
               ELSE rq.sessionId = EmptyStr /\ ~isSessionValid(rq)
            /\ call.value => rq.sessionId = EmptyStr

\* a Request was constructed with "SID=1" while session 1 was live
C6_Witness ==
    /\ call.op = "HttpRequest"
    /\ call.name = SID \o <<EQ, 49>>
    /\ <<49>> \in DOMAIN sessions
    /\ req[call.r].sessionId = <<49>>

\* C7: a step creates a session only if it is createSession, or a
\* set...Attribute call made with an empty session id; such a call creates
\* exactly one session, adopts its id and stores the attribute in it. With
\* an empty session id the reads, the name listing, the attribute removal
\* and removeSession return nothing found, and change neither the store nor
\* the Request.
C7_SessionCreatedOnlyOnDemand ==
    [][LET new == created' \ created
           r   == call'.r
       IN  /\ new # {} =>
                /\ Cardinality(new) = 1
                /\ \/ call'.op = "createSession"
                   \/ call'.op \in AttrWrites /\ req[r].sessionId = EmptyStr
                /\ req'[r].sessionId \in new
           /\ call'.op = "createSession" => Cardinality(new) = 1
           /\ (call'.op \in AttrWrites /\ req[r].sessionId = EmptyStr) =>
                /\ Cardinality(new) = 1
                /\ req'[r].sessionId \in new
                /\ isSessionValid(req'[r])
                /\ IF call'.op = "setSessionAttribute"
                   THEN sessions'[req'[r].sessionId].attrs
                            = [n \in {call'.name} |-> call'.value]
                   ELSE sessions'[req'[r].sessionId].objs
                            = [n \in {call'.name} |-> call'.value]
           /\ (/\ call'.op \in AttrReads \cup {"getSessionAttributeNames",
                                  "getSessionRemoveAttribute", "removeSession"}
               /\ req[r].sessionId = EmptyStr) =>
                /\ new = {} /\ sessions' = sessions /\ req' = req
                /\ call'.op \in AttrReads => call'.ret = NULL
                /\ call'.op = "getSessionAttributeNames" => call'.ret = {}
      ]_vars

\* a setSessionAttribute made with no session has created one and stored
\* the attribute in it
C7_Witness ==
    /\ call.op = "setSessionAttribute"
    /\ call.ret # EmptyStr
    /\ req[call.r].sessionId = call.ret
    /\ sessions[call.ret].attrs[call.name] = call.value

-----------------------------------------------------------------------------
(* Statements about the Field's temp file and its accessors.               *)

\* C11: destroying a Field whose temp file was opened deletes exactly that
\* file, whatever was set on the Field after the file was opened, and no
\* step that is not a destruction takes a file out of the directory.
C11_DestroyDeletesItsTempFile ==
    [][\A f \in Fields :
          /\ (fields[f].life = "alive" /\ fields[f].file.open
              /\ fields'[f].life = "dead")
                => fs' = RemoveFile(fs, fields[f].file.path)
          /\ (\E q \in DOMAIN fs : q \notin DOMAIN fs')
                => \E g \in Fields : fields[g].life = "alive"
                                     /\ fields'[g].life = "dead"]_vars

ReadAccessors ==
    {"GetType", "GetTextTypeContent", "GetFileContentSize", "GetFileContent",
     "GetTempFileName", "GetFileName", "GetFileMimeType"}

\* C16: a read accessor returns a value exactly in its configuration and
\* throws in every other, and changes nothing: the content size and the
\* content need type File and memory storage, the temp file name type File
\* and filesystem storage, the text content type Text, the type a type that
\* was set; with no type set every accessor throws.
C16_AccessorsSucceedInTheirConfiguration ==
    [][fcall'.op \in ReadAccessors =>
          LET fld == fields[fcall'.f]
              ok  == ~fcall'.threw
          IN  /\ fields' = fields /\ fs' = fs
              /\ fcall'.op \in {"GetFileContentSize", "GetFileContent"} =>
                    (ok <=> (fld.type = FileType
                             /\ fld.where = StoreUploadedFilesInMemory))
              /\ fcall'.op = "GetTempFileName" =>
                    (ok <=> (fld.type = FileType
                             /\ fld.where = StoreUploadedFilesInFilesystem))
              /\ fcall'.op = "GetTextTypeContent" => (ok <=> fld.type = TextType)
              /\ fcall'.op = "GetType" => (ok <=> fld.type # 0)
              /\ fld.type = 0 => ~ok]_vars

\* GetTempFileName has thrown on a File Field kept in memory
C16_Witness ==
    /\ fcall.op = "GetTempFileName" /\ fcall.threw
    /\ fields[fcall.f].type = FileType
    /\ fields[fcall.f].where = StoreUploadedFilesInMemory

\* C17: a File Field holds the chunks it accepted, in the order they came:
\* kept in memory, the buffer is their concatenation, with nothing added
\* (its size is the sum of their lengths); kept in the filesystem, the temp
\* file is open, is in the directory and holds their concatenation whenever
\* AcceptSomeData has returned.
C17_FileIsConcatenation ==
    \A f \in Fields :
        (Idle(f) /\ fields[f].type = FileType) =>
            /\ fields[f].accModes = {"memory"} =>
                  /\ fields[f].FieldContent = fields[f].accBytes
                  /\ Len(fields[f].FieldContent) = Len(fields[f].accBytes)
            /\ fields[f].accModes = {"disk"} =>
                  /\ fields[f].file.open
                  /\ fields[f].file.path \in DOMAIN fs
                  /\ fs[fields[f].file.path] = fields[f].accBytes

-----------------------------------------------------------------------------
(* The session round trip.                                                 *)

\* C18: on one Request, createSession, setSessionAttribute(name, v) and
\* getSessionAttribute(name) made one right after the other, nothing else
\* happening in between, give v. Step by step: the write that follows
\* createSession creates no second session and stores v under the id
\* createSession produced; the read that follows a write to a live session
\* is made under the same id and returns the value written.
C18_CreateSetGetRoundTrip ==
    [][/\ (/\ call.op = "createSession"
           /\ call'.op = "setSessionAttribute" /\ call'.r = call.r) =>
              /\ created' = created
              /\ req'[call.r].sessionId = call.ret
              /\ call.ret \in DOMAIN sessions'
              /\ HttpSession_getAttribute(sessions', call.ret, call'.name)
                    = call'.value
       /\ (/\ call.op = "setSessionAttribute"
           /\ call'.op = "getSessionAttribute" /\ call'.r = call.r
           /\ call'.name = call.name
           /\ req[call.r].sessionId \in DOMAIN sessions) =>
              /\ req'[call.r].sessionId = req[call.r].sessionId
              /\ call'.ret = call.value]_vars

\* a read has returned "v" from the session the Request created
C18_Witness ==
    /\ call.op = "getSessionAttribute"
    /\ call.ret = "v"
    /\ req[call.r].sessionId \in created
    /\ req[call.r].sessionId \in DOMAIN sessions

\* the wrappers that set up a codec context of their own
OwnContextOps == {"nvj_gzip", "nvj_gunzip", "nvj_gunzip_websocket_v2"}

(* C12: in one-shot compress, one-shot decompress and stream_decompress,   *)
(* once the codec initialisation has succeeded the context has been        *)
(* finalised exactly once when the call is over, however it ended.         *)
C12_ContextFinalisedOnce ==
    (cx.pc = "done" /\ cx.op \in OwnContextOps /\ strm.inits = 1)
        => strm.ends = 1

\* the blocks the running or finished call has allocated
OwnBlocks == {b \in DOMAIN heap : b > cx.base}

(* C13: when a wrapper has signalled an error, every output buffer it had  *)
(* allocated has been released exactly once: none is still allocated and   *)
(* none was freed twice; only a call that returns hands a buffer over.     *)
C13_ErrorReleasesOutputOnce ==
    (cx.pc = "done" /\ cx.outcome # "returned")
        => \A b \in OwnBlocks : heap[b].st = "freed"

\* the decompressors
DecompressOps == {"nvj_gunzip", "nvj_gunzip_websocket_v2"}

(* C14: a decompress call (one-shot or streaming) whose input is null or   *)
(* of length zero ends by signalling an error and hands back no output.    *)
C14_EmptyInputIsAnError ==
    (cx.pc = "done" /\ cx.op \in DecompressOps /\ (cx.src.null \/ cx.sizeSrc = 0))
        => (cx.outcome = "threw" /\ LiveBlocks(heap) = {})

\* the running call has completed a sync flush: its last codec call was a
\* Z_SYNC_FLUSH deflate that returned with room left in the output window
SyncFlushed ==
    /\ zcalls # << >>
    /\ zcalls[Len(zcalls)].fn = "deflate"
    /\ zcalls[Len(zcalls)].flush = "Z_SYNC_FLUSH"
    /\ zcalls[Len(zcalls)].wrote < zcalls[Len(zcalls)].avail_out

(* C15: a stream_compress call on a working stream that no allocation      *)
(* failure has cut short returns a length, for every input length 0        *)
(* included: the bytes the codec produced minus 4, these 4 being the       *)
(* marker of a sync flush done in that call; the length computed is never  *)
(* below zero and never wraps around.                                      *)
C15_ReturnsProducedLessMarker ==
    (cx.pc = "done" /\ cx.op = "nvj_gzip_websocket_v2" /\ ~cx.envfail
     /\ pstream.live /\ ~cx.src.null)
        => /\ cx.outcome = "returned"
           /\ SyncFlushed
           /\ cx.ret = cx.produced - SyncMarker
           /\ cx.ret >= 0 /\ ~Wrapped(cx.sizeDst)

\* the chunk a codec call works on: the one its input window lies in, or
\* the one it has reached the end of
ChunkOf(z) == IF z.avail_in > 0 THEN z.next_in \div CHUNK
              ELSE (z.next_in - 1) \div CHUNK
LastChunk(c) == (c.sizeSrc - 1) \div CHUNK
\* a sync flush point: a Z_SYNC_FLUSH call that has flushed everything out
FlushPoint(z) == z.flush = "Z_SYNC_FLUSH" /\ z.wrote < z.avail_out

(* C20: every codec call of stream_compress is a deflate on an input       *)
(* window that starts where the call before it stopped taking input and    *)
(* ends at the end of its 16 KiB chunk or of the input; it uses no-flush   *)
(* on a chunk that is not the last and sync-flush on the last one; a call  *)
(* that returns on a non-empty input has offered all of it and ends with   *)
(* its one sync-flush point.                                               *)
C20_ChunksInOrderSyncOnLast ==
    cx.op = "nvj_gzip_websocket_v2" =>
      /\ \A j \in DOMAIN zcalls :
            LET z == zcalls[j] IN
            /\ z.fn = "deflate"
            /\ z.next_in = IF j = 1 THEN 0
                           ELSE zcalls[j - 1].next_in + zcalls[j - 1].taken
            /\ z.next_in + z.avail_in = Min((ChunkOf(z) + 1) * CHUNK, cx.sizeSrc)
            /\ z.flush = IF ChunkOf(z) = LastChunk(cx) THEN "Z_SYNC_FLUSH"
                         ELSE "Z_NO_FLUSH"
      /\ (cx.outcome = "returned" /\ cx.sizeSrc > 0) =>
            /\ zcalls[Len(zcalls)].next_in + zcalls[Len(zcalls)].taken = cx.sizeSrc
            /\ FlushPoint(zcalls[Len(zcalls)])
            /\ \A j \in 1..(Len(zcalls) - 1) : ~FlushPoint(zcalls[j])
C20_Witness ==
    /\ cx.op = "nvj_gzip_websocket_v2" /\ cx.outcome = "returned"
    /\ cx.sizeSrc = 2 * CHUNK
    /\ \E j \in DOMAIN zcalls : zcalls[j].flush = "Z_NO_FLUSH" /\ zcalls[j].taken < CHUNK
    /\ \E j \in DOMAIN zcalls : zcalls[j].flush = "Z_SYNC_FLUSH" /\ zcalls[j].avail_in = 0

(* C19: nvj_gunzip applied to what nvj_gzip returned for an input x, in    *)
(* the same mode, returns the length of x and a buffer that holds x, for   *)
(* every x, the empty one included, and both modes, whenever zlib and the  *)
(* allocator refuse nothing.                                               *)
C19_GunzipOfGzipIsIdentity ==
    (cx.pc = "done" /\ cx.op = "nvj_gunzip" /\ cx.src.of = "nvj_gzip"
     /\ cx.raw = cx.src.raw /\ ~cx.envfail)
        => /\ cx.outcome = "returned"
           /\ cx.ret = cx.src.plain
           /\ cx.produced = cx.ret
           /\ HoldsStream(cx.segs, cx.ret)
           /\ cx.ret <= Capacity(heap, cx.dst)
C19_Witness ==
    /\ cx.pc = "done" /\ cx.op = "nvj_gunzip" /\ cx.src.of = "nvj_gzip"
    /\ cx.raw = cx.src.raw /\ cx.outcome = "returned"
    /\ cx.src.plain = 2 * CHUNK /\ cx.src.len = CHUNK + 1
C19_WitnessEmpty ==
    /\ cx.pc = "done" /\ cx.op = "nvj_gunzip" /\ cx.src.of = "nvj_gzip"
    /\ cx.raw = cx.src.raw /\ cx.outcome = "returned" /\ cx.src.plain = 0

-----------------------------------------------------------------------------
\* the worker of Field f is between pthread_mutex_lock and
\* pthread_mutex_unlock
InCreation(f) == fields[f].pc \in {"probe", "create"}

\* no chunk has reached a temp file of Field f yet
FirstAppend(f) == "disk" \notin fields[f].accModes

FilesystemFileField(f) ==
    /\ fields[f].type = FileType
    /\ fields[f].where = StoreUploadedFilesInFilesystem

\* C21, the holder: whoever holds fileCreation_mutex is a filesystem-mode
\* File Field in name probing or file creation with no file open yet, so
\* the mutex is never held by a worker that writes or flushes, nor by a
\* Field that is already open.
LockHeldOnlyInCreation ==
    \A f \in Fields :
        /\ (mutex = f) =>
                /\ InCreation(f) /\ FilesystemFileField(f)
                /\ ~fields[f].file.open /\ FirstAppend(f)
        /\ fields[f].file.open => fields[f].pc \in {"idle", "write"}
        /\ InCreation(f) => mutex = f

\* C21, the steps: the mutex is taken only from its free state, by a
\* worker waiting at line 59; a step that writes a chunk is taken by a
\* worker that does not hold the mutex and does not take it.
LockSteps ==
    \A f \in Fields :
        /\ (mutex # f /\ mutex' = f) =>
                /\ mutex = 0 /\ fields[f].pc = "lock"
                /\ ~fields[f].file.open /\ FirstAppend(f)
        /\ (fields[f].nAcc' > fields[f].nAcc) => (mutex # f /\ mutex' # f)
        /\ (fields[f].file.open /\ fields[f].pc = "idle") =>
                fields[f].pc' \in {"idle"}

\* C21: fileCreation_mutex is acquired only by the first append of a
\* filesystem-mode File Field, around name probing and file creation;
\* every acquisition is followed by a release; the mutex is never held
\* while data is written or flushed; an append to a Field that is already
\* open never acquires it.
C21_LockOnlyAroundCreation ==
    /\ []LockHeldOnlyInCreation
    /\ [][LockSteps]_vars
    /\ (mutex # 0) ~> (mutex = 0)

\* one worker has appended twice to its open temp file while another holds
\* the mutex for the creation of its own
C21_Witness ==
    \E f, g \in Fields :
        /\ fields[f].file.open /\ fields[f].nAcc = 2
        /\ fields[f].accModes = {"disk"}
        /\ mutex = g /\ fields[g].pc = "create"

-----------------------------------------------------------------------------
\* C22: at every point of a Request's life, whatever the other users of the
\* store do, a non-empty session id names a session that is live in the
\* store, and an attribute the Request has just written is in that session.
C22_ValidIdNamesLiveSession ==
    /\ \A r \in Requests :
            (Live(r) /\ isSessionValid(req[r]))
                => req[r].sessionId \in DOMAIN sessions
    /\ (call.op = "setSessionAttribute") =>
            /\ req[call.r].sessionId \in DOMAIN sessions
            /\ HttpSession_getAttribute(sessions, req[call.r].sessionId,
                                        call.name) = call.value

-----------------------------------------------------------------------------
\* one iteration of pass 1 stays inside the string it works on: characters
\* are written below size(), read at most at size() (where operator[]
\* yields the terminator), substr and erase start at most at size(); the
\* string does not grow and the scan position moves forward
Pass1StepInside(it) ==
    /\ \A pos \in it.touches.writes : pos < it.size
    /\ \A pos \in it.touches.reads \cup it.touches.ranges : pos <= it.size
    /\ it.sizeAfter <= it.size
    /\ it.startAfter > it.start
    /\ it.startAfter <= it.sizeAfter

-----------------------------------------------------------------------------
\* the deflate and inflate calls of the wrapper call in progress, in order
CodecCalls == SelectSeq(zcalls, LAMBDA z : z.fn \in {"deflate", "inflate"})

\* the wrapper is inside one of its codec loops
InCodecLoop ==
    cx.pc \in {"gzip_do", "gunzip_do", "gzip_ws_for", "gzip_ws_rest",
               "gunzip_ws_for", "gunzip_ws_rest"}

\* C23: in all four codec loops, at every codec call the output window,
\* CHUNK bytes from the current write offset, lies inside the allocated
\* output buffer; the capacity never decreases from one codec call to the
\* next; and while a loop runs the bytes produced so far are in the buffer,
\* in order and inside its capacity.
C23_WindowInsideBuffer ==
    /\ \A k \in 1..Len(CodecCalls) :
            /\ CodecCalls[k].avail_out = CHUNK
            /\ CodecCalls[k].next_out >= 0
            /\ CodecCalls[k].next_out + CHUNK <= CodecCalls[k].cap
            /\ (k > 1) => CodecCalls[k].cap >= CodecCalls[k - 1].cap
    /\ InCodecLoop =>
            /\ HoldsStream(cx.segs, cx.produced)
            /\ cx.produced <= Capacity(heap, cx.dst)
            /\ \A k \in 1..Len(cx.segs) :
                    cx.segs[k].off + cx.segs[k].len <= Capacity(heap, cx.dst)

\* a streaming compression is in its loop after two deflate calls: the
\* second wrote at an offset above 0 into a buffer that had grown
C23_Witness ==
    /\ cx.op = "nvj_gzip_websocket_v2" /\ InCodecLoop
    /\ Len(CodecCalls) = 2
    /\ CodecCalls[2].next_out > 0
    /\ CodecCalls[2].cap > CodecCalls[1].cap
    /\ Len(cx.segs) = 2

-----------------------------------------------------------------------------
\* nvj_gunzip_websocket_v2 has its inflate context and is past line 343
PastDictionary ==
    /\ cx.op = "nvj_gunzip_websocket_v2"
    /\ \/ cx.pc \in {"gunzip_ws_for", "gunzip_ws_rest", "gunzip_ws_tail"}
       \/ Len(CodecCalls) > 0
       \/ cx.outcome = "returned"

\* the zlib calls on record that are fn
CallsOf(fn) == {k \in 1..Len(zcalls) : zcalls[k].fn = fn}

\* every whole chunk and the remainder have been handed to inflate
AllInputInflated ==
    /\ \A i \in 0..(cx.iterations - 1) :
            \E k \in CallsOf("inflate") :
                zcalls[k].next_in = i * CHUNK /\ zcalls[k].avail_in = CHUNK
    /\ (cx.rmndr # 0) =>
            \E k \in CallsOf("inflate") :
                /\ zcalls[k].next_in = cx.iterations * CHUNK
                /\ zcalls[k].avail_in = cx.rmndr

\* C25, the order of the calls: inflateSetDictionary is on record, as the
\* first call, exactly when the dictionary length passed in is non-zero;
\* inflateGetDictionary is the last call of a call that returns, made
\* after all input has been inflated, on the context that is finalised
\* right after it; a call that has not returned has left the caller's
\* dictionary and length as they were.
DictionaryOrder ==
    (cx.op = "nvj_gunzip_websocket_v2") =>
        /\ CallsOf("inflateSetDictionary") \subseteq {1}
        /\ PastDictionary =>
                ((CallsOf("inflateSetDictionary") = {1})
                    <=> (IF cx.outcome = "returned" THEN strm.dict # 0
                         ELSE cx.dictLength # 0))
        /\ CallsOf("inflateGetDictionary") =
                (IF cx.outcome = "returned" THEN {Len(zcalls)} ELSE {})
        /\ (cx.outcome = "returned") =>
                /\ AllInputInflated
                /\ zcalls[Len(zcalls)].rc = "Z_OK"
                /\ ~strm.live /\ strm.ends = 1
                /\ cx.dictionary = "window"
        /\ (cx.outcome # "returned") =>
                /\ cx.dictionary = "caller"
                /\ (strm.inits > 0 /\ cx.pc # "done") => strm.live

\* C25, the steps: the caller's dictionary and length change only in the
\* step that returns, in which the context, live until then, is finalised
DictionarySteps ==
    (cx.op = "nvj_gunzip_websocket_v2" /\ cx'.op = "nvj_gunzip_websocket_v2"
     /\ (cx'.dictLength # cx.dictLength \/ cx'.dictionary # cx.dictionary))
        => /\ cx'.outcome = "returned"
           /\ strm.live /\ ~strm'.live

\* C25: nvj_gunzip_websocket_v2 installs the supplied dictionary before
\* the first inflate call if and only if the supplied length is non-zero;
\* it extracts the context's dictionary into the caller's dictionary and
\* length only after all input has been inflated and before the context is
\* finalised; when the call fails, the caller's dictionary and length are
\* left unchanged.
C25_DictionaryInAndOut ==
    /\ []DictionaryOrder
    /\ [][DictionarySteps]_vars

\* a call with a dictionary on a raw stream of more than one chunk has
\* returned: inflateSetDictionary first, then the inflate calls, then
\* inflateGetDictionary
C25_Witness ==
    /\ cx.op = "nvj_gunzip_websocket_v2" /\ cx.outcome = "returned"
    /\ cx.iterations >= 1 /\ cx.rmndr # 0
    /\ strm.dict # 0
    /\ zcalls[1].fn = "inflateSetDictionary"
    /\ zcalls[Len(zcalls)].fn = "inflateGetDictionary"
    /\ Len(CodecCalls) >= 2

-----------------------------------------------------------------------------
\* the state of a codec context that lasts from call to call: all of it but
\* the pointers into the buffers of one call
Carried(s) == [s EXCEPT !.avail_in = 0, !.next_in = 0,
                        !.avail_out = 0, !.next_out = 0]

InStreamCompress == cx.op = "nvj_gzip_websocket_v2" /\ cx.pc # "idle"

\* C26: no step of nvj_gzip_websocket_v2, on its success path or on a
\* failure path, finalises or initialises the persistent context; only
\* nvj_end_stream finalises it; so from nvj_init_stream to nvj_end_stream
\* the state of the context changes in deflate calls only, and each call
\* starts on the state the previous one left.
C26_StreamCompressKeepsContext ==
    [][ /\ (InStreamCompress \/ cx'.op = "nvj_gzip_websocket_v2") =>
            /\ pstream'.live = pstream.live
            /\ pstream'.inits = pstream.inits
            /\ pstream'.ends = pstream.ends
            /\ pstream'.raw = pstream.raw /\ pstream'.kind = pstream.kind
        /\ (pstream'.ends # pstream.ends) =>
            /\ cx.pc = "idle" /\ cx' = cx
            /\ pstream.live /\ pstream' = deflateEnd(pstream)
        /\ (Carried(pstream') # Carried(pstream)) =>
            \/ /\ cx.pc \in {"gzip_ws_for", "gzip_ws_rest"}
               /\ Len(zcalls') = Len(zcalls) + 1
               /\ zcalls'[Len(zcalls')].fn = "deflate"
            \/ /\ cx.pc = "idle" /\ cx' = cx
               /\ \/ pstream' = deflateEnd(pstream)
                  \/ ~pstream.live /\ pstream'.inits = pstream.inits + 1
      ]_vars

\* a streaming compression has failed after a deflate call and the context
\* it was given is still live, initialised once and never finalised
C26_Witness ==
    /\ cx.op = "nvj_gzip_websocket_v2" /\ cx.pc = "done"
    /\ cx.outcome = "threw" /\ Len(CodecCalls) >= 1
    /\ pstream.live /\ pstream.inits = 1 /\ pstream.ends = 0

=============================================================================
